---- MODULE Spec2Model ----
(***************************************************************************)
(* A model of fweb, a static site generator: the shortcode engine of       *)
(* src/template.rs (find_shortcode, Shortcode::from_str, Shortcode::to_html,*)
(* template) and the content pipeline of src/main.rs.                      *)
(*                                                                         *)
(* Text is a sequence of one-character strings.  Positions are the 0-based *)
(* byte offsets of the Rust code; a range [start, end) is half open.       *)
(***************************************************************************)
EXTENDS Naturals, Integers, Sequences, FiniteSets, TLC

VARIABLES
    finput,     \* find_shortcode: the input string
    found,      \* find_shortcode: the returned Option<(usize, usize)>
    fpc,        \* find_shortcode: "call" before the call, "ret" after it
    pinput,     \* parse_file: the text of the file
    presult,    \* parse_file: the returned Result<(&str, &str)>
    ppc,        \* parse_file: "call" before the call, "ret" after it
    ctx,        \* template: the Context, a map from keys to values
    files,      \* template: the readable files below templates/, by path
    input0,     \* template: the input argument as passed by the caller
    input,      \* template: the local `input`, the text still to expand
    html,       \* template: the local `html`, the output so far
    tpc,        \* template: "idle" (not called), "loop" or "ret"
    tresult,    \* template: the returned Result<String>, None before it
    content,    \* load: the content directory, a map from directories to
                \*       what read_dir finds in them
    stack,      \* load: the local `stack` of directories to process
    dir,        \* load: the directory popped from the stack
    pages_handles, \* load: the parse tasks spawned for the pages of dir
    indices,    \* load: the local `indices`, the Vec<Index> that is returned
    nav,        \* build: the nav fragment, None before build_navigation
    lpc,        \* build: where Website::build and the functions it awaits
                \*        stand: "idle", "start", "pop", "parse", "loaded",
                \*        "nav", "export", "expand", "write", "spawn",
                \*        "await", "join" or "ret"
    broken,     \* build: the directories and files that cannot be read or
                \*        parsed
    assets,     \* build: the files of the assets directory, None without it
    mirror_assets_handle, \* build: the task of mirror_assets: "idle",
                \*        "running", "ok" or "err"
    ectx,       \* export: the local `ctx` of export_indices_to_html
    eindex,     \* export: the indices the for loop is through with
    ework,      \* export: the locals `template` and `html` of the index
    handles,    \* export: the tasks spawned for the pages of the index
    output,     \* build: the files below output_path, with their writers
    reads,      \* export: the reads of template files, by path
    bresult     \* build: the Result<()> of Website::build, None before it

fvars == <<finput, found, fpc, pinput, presult, ppc>>
tvars == <<ctx, files, input0, input, html, tpc, tresult>>
svars == <<content, stack, dir, pages_handles, indices, nav, lpc>>
bvars == <<broken, assets, mirror_assets_handle, ectx, eindex, ework, handles,
           output, reads, bresult>>
vars == <<finput, found, fpc, pinput, presult, ppc, ctx, files, input0, input, html, tpc, tresult,
          content, stack, dir, pages_handles, indices, nav, lpc,
          broken, assets, mirror_assets_handle, ectx, eindex, ework, handles,
          output, reads, bresult>>

----------------------------------------------------------------------------
(* Option<T> and Result<T, Error> *)
None == [some |-> FALSE]
Some(x) == [some |-> TRUE, val |-> x]
Ok(x) == [ok |-> TRUE, val |-> x]
Err(kind, arg) == [ok |-> FALSE, err |-> [kind |-> kind, arg |-> arg]]

\* No site is being built.
SiteIdle ==
    /\ content = <<>> /\ stack = <<>> /\ dir = <<>> /\ pages_handles = <<>>
    /\ indices = <<>> /\ nav = None /\ lpc = "idle"

\* Nothing of a build beyond the load and the nav fragment has happened.
BuildIdle ==
    /\ broken = {} /\ assets = None /\ mirror_assets_handle = "idle"
    /\ ectx = <<>> /\ eindex = 0 /\ ework = <<>> /\ handles = <<>>
    /\ output = <<>> /\ reads = <<>> /\ bresult = None

----------------------------------------------------------------------------
(* Characters and the delimiters of src/template.rs *)
LB == "{"
RB == "}"
PCT == "%"
SPC == " "
QUOTE == "\""

SHORTCODE_START == LB
COMMAND_START == <<LB, PCT>>
COMMAND_END == <<PCT, RB>>
TAG_START == <<LB, LB>>
TAG_END == <<RB, RB>>
INCLUDE == <<"i", "n", "c", "l", "u", "d", "e">>

----------------------------------------------------------------------------------------------------------------------------------------------------
(* A `let` binding: x is evaluated once and F is applied to its value.  (An *)
(* operator argument is evaluated again at each of its uses instead.)       *)
Let(x, F(_)) == CHOOSE r \in {F(v) : v \in {x}} : TRUE

----------------------------------------------------------------------------
(* str primitives of the Rust standard library, on 0-based offsets *)

\* &s[from..]
Tail0(s, from) == SubSeq(s, from + 1, Len(s))
\* &s[from..to]
Slice(s, from, to) == SubSeq(s, from + 1, to)
\* s.starts_with(pat)
StartsWith(s, pat) == Len(pat) <= Len(s) /\ SubSeq(s, 1, Len(pat)) = pat
\* s.ends_with(pat)
EndsWith(s, pat) ==
    Len(pat) <= Len(s) /\ SubSeq(s, Len(s) - Len(pat) + 1, Len(s)) = pat

\* pat occurs in s at offset i
OccursAt(s, pat, i) ==
    /\ i + Len(pat) <= Len(s)
    /\ \A k \in 1..Len(pat) : s[i + k] = pat[k]

\* The first offset from i on at which pat occurs in s
RECURSIVE StrFindFrom(_, _, _)
StrFindFrom(s, pat, i) ==
    IF i + Len(pat) > Len(s) THEN None
    ELSE IF OccursAt(s, pat, i) THEN Some(i)
    ELSE StrFindFrom(s, pat, i + 1)

\* s.find(pat): the offset of the first occurrence of pat in s
StrFind(s, pat) == Let(s, LAMBDA v : StrFindFrom(v, pat, 0))

----------------------------------------------------------------------------
(* find_shortcode *)

\* An EndOfShortcodeAt that looks for the closing delimiter one character too
\* early, inside the opening delimiter.
EndOfShortcodeAt_Overlap(inp, start_abs) ==
    Let(Tail0(inp, start_abs), LAMBDA s :
        IF StartsWith(s, TAG_START)
        THEN Let(StrFind(Tail0(s, 1), TAG_END), LAMBDA i :
                IF i.some
                THEN Some(start_abs + i.val + 1 + Len(TAG_END))
                ELSE None)
        ELSE IF StartsWith(s, COMMAND_START)
        THEN Let(StrFind(Tail0(s, 1), COMMAND_END), LAMBDA i :
                IF i.some
                THEN Some(start_abs + i.val + 1 + Len(COMMAND_END))
                ELSE None)
        ELSE None)

\* The match on &input[start_abs..]: the end of the shortcode that opens at
\* start_abs, if its closing delimiter exists.
EndOfShortcodeAt(inp, start_abs) ==
    Let(Tail0(inp, start_abs), LAMBDA s :
        IF StartsWith(s, TAG_START)
        THEN Let(StrFind(Tail0(s, Len(TAG_START)), TAG_END), LAMBDA i :
                IF i.some
                THEN Some(start_abs + i.val + Len(TAG_START) + Len(TAG_END))
                ELSE None)
        ELSE IF StartsWith(s, COMMAND_START)
        THEN Let(StrFind(Tail0(s, Len(COMMAND_START)), COMMAND_END), LAMBDA i :
                IF i.some
                THEN Some(start_abs + i.val + Len(COMMAND_START) + Len(COMMAND_END))
                ELSE None)
        ELSE None)

\* A find_shortcode that gives up at the first opening brace without a closer.
FindShortcodeFrom_GiveUp(inp, search_start_idx) ==
    Let(StrFind(Tail0(inp, search_start_idx), <<SHORTCODE_START>>), LAMBDA start :
        IF ~start.some THEN None
        ELSE Let(search_start_idx + start.val, LAMBDA start_abs :
             Let(EndOfShortcodeAt(inp, start_abs), LAMBDA end_abs :
                IF end_abs.some
                THEN Some(<<start_abs, end_abs.val>>)
                ELSE None)))

\* The while-let loop, entered with the given search_start_idx.
RECURSIVE FindShortcodeFrom(_, _)
FindShortcodeFrom(inp, search_start_idx) ==
    Let(StrFind(Tail0(inp, search_start_idx), <<SHORTCODE_START>>), LAMBDA start :
        IF ~start.some THEN None
        ELSE Let(search_start_idx + start.val, LAMBDA start_abs :
             Let(EndOfShortcodeAt(inp, start_abs), LAMBDA end_abs :
                IF end_abs.some
                THEN Some(<<start_abs, end_abs.val>>)
                ELSE FindShortcodeFrom(inp, start_abs + 1))))

find_shortcode(inp) == FindShortcodeFrom(inp, 0)

----------------------------------------------------------------------------
(* Shortcode: from_str and to_html *)

\* char::is_whitespace, on the characters of the model
Whitespace == {SPC, "\n"}

\* The offsets of the characters of s that are not whitespace
NonWhitespace(s) == {k \in 0..(Len(s) - 1) : s[k + 1] \notin Whitespace}

Min(S) == CHOOSE x \in S : \A y \in S : x <= y
Max(S) == CHOOSE x \in S : \A y \in S : x >= y

\* s.trim_start()
TrimStart(s) ==
    Let(s, LAMBDA v :
        Let(NonWhitespace(v), LAMBDA keep :
            IF keep = {} THEN <<>> ELSE Tail0(v, Min(keep))))

\* s.trim_end()
TrimEnd(s) ==
    Let(s, LAMBDA v :
        Let(NonWhitespace(v), LAMBDA keep :
            IF keep = {} THEN <<>> ELSE Slice(v, 0, Max(keep) + 1)))

\* s.trim()
Trim(s) == TrimEnd(TrimStart(s))

\* s.strip_prefix(pat)
StripPrefix(s, pat) ==
    Let(s, LAMBDA v :
        IF StartsWith(v, pat) THEN Some(Tail0(v, Len(pat))) ELSE None)

\* s.strip_suffix(pat)
StripSuffix(s, pat) ==
    Let(s, LAMBDA v :
        IF EndsWith(v, pat) THEN Some(Slice(v, 0, Len(v) - Len(pat))) ELSE None)

\* enum Shortcode
Include(path) == [kind |-> "Include", path |-> path]
Tag(var) == [kind |-> "Tag", var |-> var]

\* An extract_command that takes a path without its double quotes as well.
extract_command_Unquoted(s) ==
    Let(StripPrefix(s, COMMAND_START), LAMBDA a :
        IF ~a.some THEN None ELSE
        Let(StripSuffix(a.val, COMMAND_END), LAMBDA b :
            IF ~b.some THEN None ELSE
            Let(StripPrefix(Trim(b.val), INCLUDE), LAMBDA c :
                IF ~c.some THEN None ELSE
                Let(StripPrefix(TrimStart(c.val), <<QUOTE>>), LAMBDA d :
                    IF ~d.some THEN Some(Include(TrimStart(c.val))) ELSE
                    Let(StripSuffix(d.val, <<QUOTE>>), LAMBDA e :
                        IF ~e.some THEN None ELSE Some(Include(e.val)))))))

\* The closure extract_command of from_str; each `?` returns None.
extract_command(s) ==
    Let(StripPrefix(s, COMMAND_START), LAMBDA a :
        IF ~a.some THEN None ELSE
        Let(StripSuffix(a.val, COMMAND_END), LAMBDA b :
            IF ~b.some THEN None ELSE
            Let(StripPrefix(Trim(b.val), INCLUDE), LAMBDA c :
                IF ~c.some THEN None ELSE
                Let(StripPrefix(TrimStart(c.val), <<QUOTE>>), LAMBDA d :
                    IF ~d.some THEN None ELSE
                    Let(StripSuffix(d.val, <<QUOTE>>), LAMBDA e :
                        IF ~e.some THEN None ELSE Some(Include(e.val)))))))

\* An extract_tag that keeps the whitespace around the name.
extract_tag_Untrimmed(s) ==
    Let(StripPrefix(s, TAG_START), LAMBDA a :
        IF ~a.some THEN None ELSE
        Let(StripSuffix(a.val, TAG_END), LAMBDA b :
            IF ~b.some THEN None ELSE Some(Tag(b.val))))

\* The closure extract_tag of from_str.
extract_tag(s) ==
    Let(StripPrefix(s, TAG_START), LAMBDA a :
        IF ~a.some THEN None ELSE
        Let(StripSuffix(a.val, TAG_END), LAMBDA b :
            IF ~b.some THEN None ELSE Some(Tag(Trim(b.val)))))

\* <Shortcode as FromStr>::from_str
from_str(s) ==
    Let(extract_tag(s), LAMBDA t :
        IF t.some THEN Ok(t.val)
        ELSE Let(extract_command(s), LAMBDA c :
                IF c.some THEN Ok(c.val) ELSE Err("ParseShortcode", s)))

\* A to_html that puts nothing for a tag the Context does not hold.
to_html_EmptyForMissing(sc, f, c) ==
    IF sc.kind = "Include"
    THEN IF sc.path \in DOMAIN f
         THEN Ok(f[sc.path])
         ELSE Err("IncludeShortcode", sc.path)
    ELSE IF sc.var \in DOMAIN c
         THEN Ok(c[sc.var])
         ELSE Ok(<<>>)

\* Shortcode::to_html; f holds the files read_to_string can read, by their
\* path below templates/, and c is the Context.
to_html(sc, f, c) ==
    IF sc.kind = "Include"
    THEN IF sc.path \in DOMAIN f
         THEN Ok(f[sc.path])
         ELSE Err("IncludeShortcode", sc.path)
    ELSE IF sc.var \in DOMAIN c
         THEN Ok(c[sc.var])
         ELSE Err("TagNotFound", sc.var)

----------------------------------------------------------------------------
(* template *)

\* A splice that puts the replacement in front of &input[start..], so that
\* the shortcode it has just expanded stays in the input.
ResolveAndSplice_KeepsShortcode(c, f, inp, out, start, end, shortcode) ==
    Let(out \o Slice(inp, 0, start), LAMBDA pushed :
    Let(to_html(shortcode, f, c), LAMBDA r :
        IF ~r.ok
        THEN [html |-> pushed, input |-> inp, ret |-> Some(r)]
        ELSE [html |-> pushed,
              input |-> r.val \o Tail0(inp, start),
              ret |-> None]))

\* A splice that pushes the replacement to html, where it is not scanned
\* again.
ResolveAndSplice_NoRescan(c, f, inp, out, start, end, shortcode) ==
    Let(out \o Slice(inp, 0, start), LAMBDA pushed :
    Let(to_html(shortcode, f, c), LAMBDA r :
        IF ~r.ok
        THEN [html |-> pushed, input |-> inp, ret |-> Some(r)]
        ELSE [html |-> pushed \o r.val,
              input |-> Tail0(inp, end),
              ret |-> None]))

\* The loop body from the parsed shortcode on: the text before the shortcode
\* is pushed to html, the shortcode is resolved, and the replacement with
\* the text behind the shortcode is the new input.
ResolveAndSplice(c, f, inp, out, start, end, shortcode) ==
    Let(out \o Slice(inp, 0, start), LAMBDA pushed :
    Let(to_html(shortcode, f, c), LAMBDA r :
        IF ~r.ok
        THEN [html |-> pushed, input |-> inp, ret |-> Some(r)]
        ELSE [html |-> pushed,
              input |-> r.val \o Tail0(inp, end),
              ret |-> None]))

\* A template that returns html without the text that remained.
LoopBody_DropsRemainder(c, f, inp, out) ==
    Let(find_shortcode(inp), LAMBDA sc :
        IF ~sc.some
        THEN [html |-> out, input |-> inp, ret |-> Some(Ok(out))]
        ELSE
        Let(from_str(Slice(inp, sc.val[1], sc.val[2])), LAMBDA shortcode :
            IF ~shortcode.ok
            THEN [html |-> out, input |-> inp, ret |-> Some(shortcode)]
            ELSE ResolveAndSplice(c, f, inp, out, sc.val[1], sc.val[2],
                                  shortcode.val)))

\* A template that notices a pass which leaves its input as it was and
\* returns an error instead of going round again.
LoopBody_DetectsRepeat(c, f, inp, out) ==
    Let(find_shortcode(inp), LAMBDA sc :
        IF ~sc.some
        THEN [html |-> out \o inp, input |-> inp, ret |-> Some(Ok(out \o inp))]
        ELSE
        Let(from_str(Slice(inp, sc.val[1], sc.val[2])), LAMBDA shortcode :
            IF ~shortcode.ok
            THEN [html |-> out, input |-> inp, ret |-> Some(shortcode)]
            ELSE
            Let(ResolveAndSplice(c, f, inp, out, sc.val[1], sc.val[2],
                                 shortcode.val), LAMBDA b :
                IF ~b.ret.some /\ b.input = inp
                THEN [html |-> b.html, input |-> inp,
                      ret |-> Some(Err("Cycle", inp))]
                ELSE b)))

\* One evaluation of the while-let condition of template and what follows
\* it: a pass through the loop body (ret = None), an early return by `?`
\* (ret = Some(Err)), or the code after the loop (ret = Some(Ok)).  inp and
\* out are the locals `input` and `html` on entry; the record holds them on
\* exit.
LoopBody(c, f, inp, out) ==
    Let(find_shortcode(inp), LAMBDA sc :
        IF ~sc.some
        THEN [html |-> out \o inp, input |-> inp, ret |-> Some(Ok(out \o inp))]
        ELSE
        Let(from_str(Slice(inp, sc.val[1], sc.val[2])), LAMBDA shortcode :
            IF ~shortcode.ok
            THEN [html |-> out, input |-> inp, ret |-> Some(shortcode)]
            ELSE ResolveAndSplice(c, f, inp, out, sc.val[1], sc.val[2],
                                  shortcode.val)))

\* The passes through the loop that a call is followed for.
Fuel == 16

\* template from the loop head on, with inp and out the locals `input` and
\* `html`: the returned Result, or None where the call is still in its loop
\* after fuel passes.
RECURSIVE Run(_, _, _, _, _)
Run(c, f, inp, out, fuel) ==
    IF fuel = 0 THEN None
    ELSE Let(LoopBody(c, f, inp, out), LAMBDA b :
             IF b.ret.some THEN b.ret
             ELSE Run(c, f, b.input, b.html, fuel - 1))

\* template(input, config, ctx)
template(inp, f, c) == Run(c, f, inp, <<>>, Fuel)

----------------------------------------------------------------------------
(* Bounded input strings *)

MaxFindLen == 6

FindAlphabet == {LB, RB, PCT, "a"}

StringsUpTo(alphabet, n) == UNION {[1..k -> alphabet] : k \in 0..n}

\* The inputs of the unit tests of src/template.rs.
TestInputs == {
    <<LB, PCT, PCT, RB>>,
    <<LB, LB, RB, RB>>,
    <<LB, LB, RB, RB, LB, PCT, PCT, RB>>,
    <<LB, PCT, PCT, RB, LB, LB, RB, RB>>,
    <<"a", "b", "c", "d", LB, LB, SPC, "1", "2", "3", "4", SPC, RB, RB,
      "a", "s", "d", "f">>,
    <<LB, RB, LB, PCT, PCT, RB>>,
    <<LB, RB, "h", "e", "l", LB, "l", "o", LB, PCT, SPC>> \o INCLUDE
        \o <<SPC, QUOTE, "t", "e", "s", "t", ".", "h", "t", "m", "l", QUOTE,
             SPC, PCT, RB>>,
    <<"t", "e", "s", "t", LB>> }

FindInputs == StringsUpTo(FindAlphabet, MaxFindLen) \cup TestInputs

----------------------------------------------------------------------------
(* The specification of a call of find_shortcode *)

TemplateIdle ==
    /\ ctx = <<>> /\ files = <<>> /\ input0 = <<>> /\ input = <<>>
    /\ html = <<>> /\ tpc = "idle" /\ tresult = None

FindInit ==
    /\ finput \in FindInputs
    /\ found = None
    /\ fpc = "call"
    /\ pinput = <<>> /\ presult = None /\ ppc = "idle"
    /\ TemplateIdle
    /\ SiteIdle
    /\ BuildIdle

FindShortcode ==
    /\ fpc = "call"
    /\ found' = find_shortcode(finput)
    /\ fpc' = "ret"
    /\ UNCHANGED <<finput, pinput, presult, ppc>>
    /\ UNCHANGED tvars
    /\ UNCHANGED svars
    /\ UNCHANGED bvars

FindNext == FindShortcode

SpecFind == FindInit /\ [][FindNext]_vars

\* A complete shortcode begins at offset i of s: an opening delimiter at i and
\* the matching closing delimiter somewhere after it.
CompleteAt(s, i) ==
    \/ /\ StartsWith(Tail0(s, i), TAG_START)
       /\ \E j \in (i + 2)..(Len(s) - 2) : Slice(s, j, j + 2) = TAG_END
    \/ /\ StartsWith(Tail0(s, i), COMMAND_START)
       /\ \E j \in (i + 2)..(Len(s) - 2) : Slice(s, j, j + 2) = COMMAND_END

\* The span [start, end) of s is delimited by a matching pair.
DelimitedSpan(s, start, end) ==
    LET span == Slice(s, start, end)
    IN  /\ 0 <= start /\ end <= Len(s) /\ end - start >= 4
        /\ \/ StartsWith(span, TAG_START) /\ EndsWith(span, TAG_END)
           \/ StartsWith(span, COMMAND_START) /\ EndsWith(span, COMMAND_END)

\* C3: find_shortcode returns Some((start, end)) exactly when the input holds a
\* complete shortcode; the span then begins with an opening delimiter, ends
\* with the matching closing delimiter, is at least 4 long, and start is the
\* smallest offset at which a complete shortcode begins (so an opening brace
\* without a closer never hides a later shortcode); otherwise it returns None.
C3_FindShortcode ==
    fpc = "ret" =>
        /\ found.some <=> \E i \in 0..Len(finput) : CompleteAt(finput, i)
        /\ found.some =>
              /\ DelimitedSpan(finput, found.val[1], found.val[2])
              /\ CompleteAt(finput, found.val[1])
              /\ \A i \in 0..(found.val[1] - 1) : ~CompleteAt(finput, i)

\* C3 witness: the shortcode behind "{}hel{lo" is found at (8, 33).
C3_Witness ==
    /\ fpc = "ret"
    /\ Len(finput) = 33
    /\ Slice(finput, 0, 8) = <<LB, RB, "h", "e", "l", LB, "l", "o">>
    /\ found = Some(<<8, 33>>)

----------------------------------------------------------------------------
(* The specification of a call of template *)

MaxFrags == 2
MaxGrowth == 12

KeyA == <<"a">>
KeyB == <<"b">>
KeyC == <<"c">>
PathF == <<"f">>
PathG == <<"g">>

\* "{{" ws key ws "}}"
TagText(ws, key) == TAG_START \o ws \o key \o ws \o TAG_END
\* "{% " word " " arg " %}"
CommandText(word, arg) ==
    COMMAND_START \o <<SPC>> \o word \o <<SPC>> \o arg \o <<SPC>> \o COMMAND_END
Quoted(path) == <<QUOTE>> \o path \o <<QUOTE>>

\* The pieces a template text is put together from: literal text, a lone
\* brace, tags with and without whitespace, a tag of no key, includes of a
\* readable and of an unreadable file, three malformed commands, an opening
\* delimiter without a closer, and text that ends in a closing delimiter.
Fragments == {
    <<"x">>,
    <<LB>>,
    TagText(<<>>, KeyA),
    TagText(<<SPC>>, KeyB),
    TagText(<<>>, KeyC),
    CommandText(INCLUDE, Quoted(PathF)),
    CommandText(INCLUDE, Quoted(PathG)),
    CommandText(<<"i", "m", "p", "o", "r", "t">>, Quoted(PathF)),
    CommandText(INCLUDE, PathF),
    COMMAND_START \o COMMAND_END,
    COMMAND_START,
    <<LB, "b", RB, RB>> }

RECURSIVE Concat(_)
Concat(ss) == IF ss = <<>> THEN <<>> ELSE Head(ss) \o Concat(Tail(ss))

TemplateInputs == {Concat(fs) : fs \in StringsUpTo(Fragments, MaxFrags)}

\* Context values: plain text, a nested tag, a lone brace, a closing
\* delimiter, a tag followed by text that ends in a closing delimiter, and a
\* value that names its own key.
ValuesA == {
    <<"v">>,
    TagText(<<>>, KeyB),
    <<LB>>,
    COMMAND_END,
    TagText(<<>>, KeyB) \o <<"a">> \o TAG_END,
    <<"x">> \o TagText(<<>>, KeyA) }
ValuesB == { <<"w">>, TAG_START }
ContentsF == { <<"p">>, <<LB, "x", RB, RB>>, TagText(<<>>, KeyB) }

Contexts == {(KeyA :> va) @@ (KeyB :> vb) : va \in ValuesA, vb \in ValuesB}
FileSystems == {(PathF :> cf) : cf \in ContentsF}

FindIdle ==
    /\ finput = <<>> /\ found = None /\ fpc = "idle"
    /\ pinput = <<>> /\ presult = None /\ ppc = "idle"

TemplateInit ==
    /\ ctx \in Contexts
    /\ files \in FileSystems
    /\ input0 \in TemplateInputs
    /\ input = input0
    /\ html = <<>>
    /\ tpc = "loop"
    /\ tresult = None
    /\ FindIdle
    /\ SiteIdle
    /\ BuildIdle

\* A pass through the loop body: the shortcode is parsed and resolved, the
\* text before it is pushed to html and the replacement goes back to input.
TemplateExpand ==
    /\ tpc = "loop"
    /\ LET b == LoopBody(ctx, files, input, html)
       IN  /\ ~b.ret.some
           /\ Len(b.input) + Len(b.html) <= Len(input0) + MaxGrowth
           /\ input' = b.input
           /\ html' = b.html
    /\ UNCHANGED <<ctx, files, input0, tpc, tresult>>
    /\ UNCHANGED fvars
    /\ UNCHANGED svars
    /\ UNCHANGED bvars

\* An early return: the shortcode does not parse or does not resolve.
TemplateFail ==
    /\ tpc = "loop"
    /\ LET b == LoopBody(ctx, files, input, html)
       IN  /\ b.ret.some /\ ~b.ret.val.ok
           /\ input' = b.input
           /\ html' = b.html
           /\ tresult' = b.ret
    /\ tpc' = "ret"
    /\ UNCHANGED <<ctx, files, input0>>
    /\ UNCHANGED fvars
    /\ UNCHANGED svars
    /\ UNCHANGED bvars

\* No shortcode is left: the rest is pushed to html, which is returned.
TemplateReturn ==
    /\ tpc = "loop"
    /\ LET b == LoopBody(ctx, files, input, html)
       IN  /\ b.ret.some /\ b.ret.val.ok
           /\ input' = b.input
           /\ html' = b.html
           /\ tresult' = b.ret
    /\ tpc' = "ret"
    /\ UNCHANGED <<ctx, files, input0>>
    /\ UNCHANGED fvars
    /\ UNCHANGED svars
    /\ UNCHANGED bvars

TemplateNext == TemplateExpand \/ TemplateFail \/ TemplateReturn

SpecTemplate == TemplateInit /\ [][TemplateNext]_vars

\* The inputs the calls under a fair scheduler are followed for.
MaxFairFrags == 1

FairInputs == {Concat(fs) : fs \in StringsUpTo(Fragments, MaxFairFrags)}

TemplateFairInit ==
    /\ ctx \in Contexts
    /\ files \in FileSystems
    /\ input0 \in FairInputs
    /\ input = input0
    /\ html = <<>>
    /\ tpc = "loop"
    /\ tresult = None
    /\ FindIdle
    /\ SiteIdle
    /\ BuildIdle

\* The scheduler runs a task that can run: a call of template that can take
\* another pass through its loop takes it.
SpecTemplateFair ==
    TemplateFairInit /\ [][TemplateNext]_vars /\ WF_vars(TemplateNext)

\* s holds no complete shortcode.
NoCompleteShortcode(s) == \A i \in 0..Len(s) : ~CompleteAt(s, i)

\* template has returned Ok.
ReturnedOk == tpc = "ret" /\ tresult.val.ok
\* template has returned an error.
ReturnedErr == tpc = "ret" /\ ~tresult.val.ok

\* C1 as stated: if template returns Ok(html), html holds no complete
\* shortcode, i.e. find_shortcode(html) is None.
C1_OutputHasNoShortcode ==
    ReturnedOk => ~find_shortcode(tresult.val.val).some

\* C1, amended: every step of template appends to html one segment (the
\* text before the shortcode it expands, or on return the text that remains)
\* and no segment holds a complete shortcode; the html returned by Ok is the
\* html so built, and its last segment is the whole remaining input.
C1_SegmentsHaveNoShortcode ==
    [][/\ Len(html') >= Len(html)
       /\ SubSeq(html', 1, Len(html)) = html
       /\ NoCompleteShortcode(Tail0(html', Len(html)))
       /\ (tpc' = "ret" /\ tresult'.val.ok) =>
             /\ tresult'.val.val = html'
             /\ Tail0(html', Len(html)) = input'
             /\ NoCompleteShortcode(input')]_vars

\* C1 witness: Ok is returned after at least one shortcode was expanded.
C1_Witness ==
    /\ ReturnedOk
    /\ ~NoCompleteShortcode(input0)
    /\ NoCompleteShortcode(html)
    /\ html # input0

----------------------------------------------------------------------------
(* References between context values and included files *)

\* The things a shortcode can refer to: a key of the context, a readable file.
Nodes ==
    {[kind |-> "Tag", name |-> k] : k \in DOMAIN ctx}
        \cup {[kind |-> "Include", name |-> q] : q \in DOMAIN files}

TextOf(n) == IF n.kind = "Tag" THEN ctx[n.name] ELSE files[n.name]

\* Every substring of s that a matching pair of delimiters encloses.
DelimitedSubstrings(s) ==
    {Slice(s, x[1], x[2]) :
        x \in {y \in (0..Len(s)) \X (0..Len(s)) : DelimitedSpan(s, y[1], y[2])}}

\* n's text holds a shortcode that names m.
RefersTo(n, m) ==
    \E t \in DelimitedSubstrings(TextOf(n)) :
        from_str(t) = Ok(IF m.kind = "Tag" THEN Tag(m.name) ELSE Include(m.name))

\* The nodes n leads to in at most k references, k >= 1.
RECURSIVE ReachedIn(_, _)
ReachedIn(n, k) ==
    LET direct == {m \in Nodes : RefersTo(n, m)}
    IN  IF k <= 1 THEN direct
        ELSE LET before == ReachedIn(n, k - 1)
             IN  before \cup {m \in Nodes : \E x \in before : RefersTo(x, m)}

\* A context value or an included file holds a shortcode that refers to
\* itself, directly or through a chain of other values or files.
SelfReferencing == \E n \in Nodes : n \in ReachedIn(n, Cardinality(Nodes))

\* The end of the shortcode that opens at offset i of s: the end of the first
\* matching closing delimiter behind the opening one.  Only for CompleteAt(s, i).
SpanEndAt(s, i) ==
    LET close == IF s[i + 2] = LB THEN TAG_END ELSE COMMAND_END
    IN  CHOOSE e \in (i + 4)..Len(s) :
            /\ Slice(s, e - 2, e) = close
            /\ \A d \in (i + 4)..(e - 1) : Slice(s, d - 2, d) # close

\* Read from offset k on, every opening brace of s begins a complete
\* shortcode of s or lies in one.
RECURSIVE BracesCoveredFrom(_, _)
BracesCoveredFrom(s, k) ==
    IF k >= Len(s) THEN TRUE
    ELSE IF s[k + 1] # LB THEN BracesCoveredFrom(s, k + 1)
    ELSE IF CompleteAt(s, k) THEN BracesCoveredFrom(s, SpanEndAt(s, k))
    ELSE FALSE

\* No context value and no included file has an opening brace outside its
\* own complete shortcodes.
ValuesWellBraced == \A n \in Nodes : BracesCoveredFrom(TextOf(n), 0)

\* C2 as stated: template returns, Ok or Err, whenever no context value and
\* no included file holds a shortcode that refers to itself, directly or
\* through a chain.
C2_TerminatesIfAcyclic == ~SelfReferencing => <>(tpc = "ret")

\* C2, amended: template returns whenever, in addition, every opening brace
\* of a context value or included file lies in a complete shortcode of that
\* same value or file.
C2_TerminatesIfAcyclicAndWellBraced ==
    (~SelfReferencing /\ ValuesWellBraced) => <>(tpc = "ret")

\* C2 witness: template has returned after expanding a value that holds a
\* nested shortcode, in a context that is well braced and refers to itself
\* nowhere.
C2_Witness ==
    /\ tpc = "ret"
    /\ ~SelfReferencing /\ ValuesWellBraced
    /\ \E n \in Nodes : ~NoCompleteShortcode(TextOf(n))
    /\ StartsWith(input0, TagText(<<>>, KeyA))
    /\ ~NoCompleteShortcode(ctx[KeyA])

----------------------------------------------------------------------------
(* Replacement in place *)

\* The offset at which the first complete shortcode of s begins.
\* Only for ~NoCompleteShortcode(s).
FirstShortcodeAt(s) == Min({i \in 0..Len(s) : CompleteAt(s, i)})

\* The value the shortcode text t stands for.
ValueOf(t) ==
    Let(from_str(t), LAMBDA sc : IF sc.ok THEN to_html(sc.val, files, ctx) ELSE sc)

\* s holds one of the four delimiters.
HasDelimiter(s) ==
    \E i \in 0..Len(s) :
        \E d \in {TAG_START, TAG_END, COMMAND_START, COMMAND_END} :
            OccursAt(s, d, i)

\* s holds one of the four delimiters or an opening brace.
HasDelimiterOrBrace(s) ==
    HasDelimiter(s) \/ \E k \in 1..Len(s) : s[k] = SHORTCODE_START

\* Read from left to right, every shortcode of s resolves, to a value that
\* holds no delimiter.
RECURSIVE ResolvesWithoutDelimiter(_)
ResolvesWithoutDelimiter(s) ==
    IF NoCompleteShortcode(s) THEN TRUE
    ELSE Let(FirstShortcodeAt(s), LAMBDA i :
         Let(SpanEndAt(s, i), LAMBDA e :
         Let(ValueOf(Slice(s, i, e)), LAMBDA v :
             /\ v.ok
             /\ ~HasDelimiter(v.val)
             /\ ResolvesWithoutDelimiter(Tail0(s, e)))))

\* Read from left to right, every shortcode of s resolves, to a value that
\* holds no delimiter and no opening brace.
RECURSIVE ResolvesPlain(_)
ResolvesPlain(s) ==
    IF NoCompleteShortcode(s) THEN TRUE
    ELSE Let(FirstShortcodeAt(s), LAMBDA i :
         Let(SpanEndAt(s, i), LAMBDA e :
         Let(ValueOf(Slice(s, i, e)), LAMBDA v :
             /\ v.ok
             /\ ~HasDelimiterOrBrace(v.val)
             /\ ResolvesPlain(Tail0(s, e)))))

\* s with each of its shortcodes, read from left to right, replaced in place
\* by its value, and all other text kept.  Only where every shortcode resolves.
RECURSIVE ReplacedInPlace(_)
ReplacedInPlace(s) ==
    IF NoCompleteShortcode(s) THEN s
    ELSE Let(FirstShortcodeAt(s), LAMBDA i :
         Let(SpanEndAt(s, i), LAMBDA e :
             Slice(s, 0, i) \o ValueOf(Slice(s, i, e)).val
                 \o ReplacedInPlace(Tail0(s, e))))

\* C4 as stated: when every shortcode of the template resolves to a value
\* without shortcode syntax (without any of the four delimiters), the Ok
\* output is the input with each shortcode replaced in place by its value.
C4_ReplacedInPlace ==
    (ReturnedOk /\ ResolvesWithoutDelimiter(input0)) =>
        tresult.val.val = ReplacedInPlace(input0)

\* C4, amended: when every shortcode of the template resolves to a value
\* that holds no delimiter and no opening brace either, template returns Ok
\* of the input with each shortcode replaced in place by its value and all
\* other text kept in its order; an input without a complete shortcode is
\* returned unchanged.
C4_ReplacedInPlaceIfNoBrace ==
    (tpc = "ret" /\ ResolvesPlain(input0)) =>
        /\ tresult = Some(Ok(ReplacedInPlace(input0)))
        /\ NoCompleteShortcode(input0) => tresult = Some(Ok(input0))

\* C4 witness: literal text, then a shortcode that resolves to plain text.
C4_Witness ==
    /\ ReturnedOk
    /\ ResolvesPlain(input0)
    /\ StartsWith(input0, <<"x">>)
    /\ ~NoCompleteShortcode(input0)
    /\ StartsWith(html, <<"x">>)
    /\ html # input0

----------------------------------------------------------------------------
(* The specification of a call of template on one shortcode *)

MaxPad == 1

\* Whitespace of up to MaxPad characters.
Pads == StringsUpTo(Whitespace, MaxPad)

IMPORT == <<"i", "m", "p", "o", "r", "t">>

\* What stands between the delimiters of a tag: the keys, no name, and text
\* that would be a command between the other delimiters.
TagNames == {KeyA, KeyB, KeyC, <<>>, <<PCT>>, INCLUDE \o <<SPC>> \o Quoted(PathF)}
Words == {<<>>, INCLUDE, IMPORT}
Separators == {<<>>, <<SPC>>}
Quotes == {<<>>, <<QUOTE>>}
Paths == {PathF, PathG}

\* "{{" p1 name p2 "}}"
PaddedTag(p1, name, p2) == TAG_START \o p1 \o name \o p2 \o TAG_END

\* "{%" pad word sep q1 path q2 pad "%}"
CommandOf(pad, word, sep, q1, path, q2) ==
    COMMAND_START \o pad \o word \o sep \o q1 \o path \o q2 \o pad
        \o COMMAND_END

TagTexts == {PaddedTag(p1, n, p2) : p1 \in Pads, n \in TagNames, p2 \in Pads}

CommandTexts ==
    {CommandOf(pad, w, sep, q[1], path, q[2]) :
        pad \in Pads, w \in Words, sep \in Separators,
        q \in Quotes \X Quotes, path \in Paths}

EmptyCommands == {COMMAND_START \o pad \o COMMAND_END : pad \in Pads}

ShortcodeTexts == TagTexts \cup CommandTexts \cup EmptyCommands

ShortcodeInit ==
    /\ ctx \in Contexts
    /\ files \in FileSystems
    /\ input0 \in ShortcodeTexts
    /\ input = input0
    /\ html = <<>>
    /\ tpc = "loop"
    /\ tresult = None
    /\ FindIdle
    /\ SiteIdle
    /\ BuildIdle

SpecShortcode == ShortcodeInit /\ [][TemplateNext]_vars

\* The call is at its first evaluation of the loop condition.
AtFirstPass == tpc = "loop" /\ input = input0 /\ html = <<>>

\* C5: a tag of a key of the context is replaced by exactly the value stored
\* under the key, whatever whitespace stands between the delimiters and the
\* name: the first pass over "{{" p1 name p2 "}}" leaves the value as the
\* text to expand and nothing else.
C5_TagResolvesToValue ==
    [][\A p1 \in Pads, p2 \in Pads : \A k \in DOMAIN ctx :
          (AtFirstPass /\ input0 = PaddedTag(p1, k, p2)) =>
              /\ input' = ctx[k]
              /\ html' = <<>>
              /\ tpc' = "loop"
              /\ tresult' = None]_vars

\* C5 witness: "{{ a }}" with a: "v" has returned "v".
C5_Witness ==
    /\ input0 = PaddedTag(<<SPC>>, KeyA, <<SPC>>)
    /\ ctx[KeyA] = <<"v">>
    /\ tresult = Some(Ok(<<"v">>))

\* C7: a command that is empty, whose word is not include, or whose path is
\* not enclosed in double quotes makes template fail with ParseShortcode of
\* the span; a span between "{{" and "}}" is a Tag of the trimmed text
\* between them, so that the call goes on with its value or fails with
\* TagNotFound of it; and a well-formed include of a path p is Include(p), so
\* that the call goes on with the file or fails with IncludeShortcode of p.
C7_MalformedFailsToParse ==
    [][AtFirstPass =>
        /\ input0 \in EmptyCommands =>
              tpc' = "ret" /\ tresult' = Some(Err("ParseShortcode", input0))
        /\ \A pad \in Pads, w \in Words, sep \in Separators,
              q1 \in Quotes, q2 \in Quotes, path \in Paths :
              input0 = CommandOf(pad, w, sep, q1, path, q2) =>
                  IF w = INCLUDE /\ q1 = <<QUOTE>> /\ q2 = <<QUOTE>>
                  THEN IF path \in DOMAIN files
                       THEN tpc' = "loop" /\ input' = files[path]
                       ELSE /\ tpc' = "ret"
                            /\ tresult' = Some(Err("IncludeShortcode", path))
                  ELSE /\ tpc' = "ret"
                       /\ tresult' = Some(Err("ParseShortcode", input0))
        /\ \A p1 \in Pads, n \in TagNames, p2 \in Pads :
              input0 = PaddedTag(p1, n, p2) =>
                  IF n \in DOMAIN ctx
                  THEN tpc' = "loop" /\ input' = ctx[n]
                  ELSE tpc' = "ret" /\ tresult' = Some(Err("TagNotFound", n))
      ]_vars

\* C7 witness: {% include f %}, a path without quotes, has failed to parse.
C7_Witness ==
    /\ input0 = CommandOf(<<SPC>>, INCLUDE, <<SPC>>, <<>>, PathF, <<>>)
    /\ tpc = "ret"
    /\ tresult = Some(Err("ParseShortcode", input0))

----------------------------------------------------------------------------
(* Errors and nested expansion *)

\* The first complete shortcode of s, as text.  Only for
\* ~NoCompleteShortcode(s).
FirstShortcode(s) == Slice(s, FirstShortcodeAt(s), SpanEndAt(s, FirstShortcodeAt(s)))

\* The error the shortcode text t stands for: a tag of no key of the
\* context, an include of a file that cannot be read; None for any other t.
UnresolvableAs(t) ==
    Let(from_str(t), LAMBDA sc :
        IF ~sc.ok THEN None
        ELSE IF sc.val.kind = "Tag" /\ sc.val.var \notin DOMAIN ctx
        THEN Some(Err("TagNotFound", sc.val.var))
        ELSE IF sc.val.kind = "Include" /\ sc.val.path \notin DOMAIN files
        THEN Some(Err("IncludeShortcode", sc.val.path))
        ELSE None)

\* The text to expand begins (after literal text) with a tag of no key of
\* the context or with an include of a file that cannot be read.
MeetsUnresolvable ==
    /\ tpc = "loop"
    /\ ~NoCompleteShortcode(input)
    /\ UnresolvableAs(FirstShortcode(input)).some

\* C6: when expansion meets a tag that is no key of the context, or an
\* include of a file that cannot be read, the call returns at that point
\* with TagNotFound of the name or IncludeShortcode of the path; what it
\* returns is the error alone, with no output, and after the return it takes
\* no step, so that no later shortcode is resolved.
C6_UnresolvedAborts ==
    [][/\ MeetsUnresolvable =>
            /\ tpc' = "ret"
            /\ tresult' = UnresolvableAs(FirstShortcode(input))
            /\ input' = input
       /\ tpc = "ret" => FALSE]_vars

\* C6 witness: "{{a}}{{c}}" with a: "v" has failed with TagNotFound of c
\* after the first tag was resolved and its value pushed to html.
C6_Witness ==
    /\ input0 = TagText(<<>>, KeyA) \o TagText(<<>>, KeyC)
    /\ ctx[KeyA] = <<"v">>
    /\ tpc = "ret"
    /\ tresult = Some(Err("TagNotFound", KeyC))
    /\ html = <<"v">>

\* C8: for every key a whose value v expands successfully, the result of
\* template on "{{a}}" (or "{{ a }}") followed by any rest is the result of
\* template on v followed by the rest; with no rest, the result of template
\* on v.
C8_ReplacementRescanned ==
    \A a \in DOMAIN ctx : \A pad \in {<<>>, <<SPC>>} :
        (/\ tpc = "ret"
         /\ StartsWith(input0, TagText(pad, a))
         /\ template(ctx[a], files, ctx).some
         /\ template(ctx[a], files, ctx).val.ok) =>
            tresult = template(ctx[a] \o Tail0(input0, Len(TagText(pad, a))),
                               files, ctx)

\* C8 witness: "{{a}}x" with a: "{{b}}" and b: "w" has returned "wx".
C8_Witness ==
    /\ input0 = TagText(<<>>, KeyA) \o <<"x">>
    /\ ctx[KeyA] = TagText(<<>>, KeyB)
    /\ ctx[KeyB] = <<"w">>
    /\ tresult = Some(Ok(<<"w", "x">>))

----------------------------------------------------------------------------
(* Content: pages, indices and their order (src/main.rs) *)

\* The byte of a character; String's Ord compares bytes.
Byte(ch) ==
    CASE ch = "B" -> 66 [] ch = "H" -> 72 [] ch = "a" -> 97 [] ch = "b" -> 98
      [] ch = "e" -> 101 [] ch = "g" -> 103 [] ch = "l" -> 108
      [] ch = "m" -> 109 [] ch = "o" -> 111

\* Ord::cmp of two integers
IntCmp(x, y) == IF x < y THEN "Less" ELSE IF x = y THEN "Equal" ELSE "Greater"

\* Ord::cmp of two Strings: lexicographic by bytes, a proper prefix is less.
RECURSIVE StrCmp(_, _)
StrCmp(s, t) ==
    IF s = <<>> THEN (IF t = <<>> THEN "Equal" ELSE "Less")
    ELSE IF t = <<>> THEN "Greater"
    ELSE IF Head(s) = Head(t) THEN StrCmp(Tail(s), Tail(t))
    ELSE IntCmp(Byte(Head(s)), Byte(Head(t)))

\* Ord::cmp of two Option<T> of integers: None is less than every Some.
OptCmp(a, b) ==
    IF ~a.some THEN (IF ~b.some THEN "Equal" ELSE "Less")
    ELSE IF ~b.some THEN "Greater"
    ELSE IntCmp(a.val, b.val)

\* A comparison that sorts by date in ascending order.
Compare_DateAscending(sort_by, p1, p2) ==
    CASE sort_by = "Title" -> StrCmp(p1.title, p2.title)
      [] sort_by = "Date" -> OptCmp(p1.date, p2.date)
      [] sort_by = "Weight" -> OptCmp(p1.weight, p2.weight)

\* The closure given to sort_unstable_by
Compare(sort_by, p1, p2) ==
    CASE sort_by = "Title" -> StrCmp(p1.title, p2.title)
      [] sort_by = "Date" -> OptCmp(p2.date, p1.date)
      [] sort_by = "Weight" -> OptCmp(p1.weight, p2.weight)

\* The orders a sequence can be put in.
Orders(s) ==
    {[i \in 1..Len(s) |-> s[f[i]]] :
        f \in {g \in [1..Len(s) -> 1..Len(s)] :
                  \A i, j \in 1..Len(s) : g[i] = g[j] => i = j}}

\* pages.sort_unstable_by(..): the orders of pages the closure accepts.  The
\* sort is not stable, so any of them can come out.
sort_unstable_by(pages, sort_by) ==
    {s \in Orders(pages) :
        \A i, j \in 1..Len(s) : i < j => Compare(sort_by, s[i], s[j]) # "Greater"}

\* format!("<a href=\"{}/\">{}</a>\n", path, title), with the path as the
\* sequence of its components.
Link(path, title) == [href |-> path, title |-> title]

\* The (position, link) pairs of an index that is displayed and of its
\* displayed pages, as pushed to navs.
NavsOf(index) ==
    IF ~index.metadata.display_in_nav.some THEN <<>>
    ELSE <<[i |-> index.metadata.display_in_nav.val,
            nav |-> Link(index.dir, index.metadata.title)]>>
         \o [k \in 1..Len(SelectSeq(index.pages,
                                    LAMBDA pg : pg.display_in_nav.some)) |->
               LET page == SelectSeq(index.pages,
                                     LAMBDA pg : pg.display_in_nav.some)[k]
               IN  [i |-> page.display_in_nav.val,
                    nav |-> Link(index.dir \o <<page.id>>, page.title)]]

\* navs before it is sorted
RECURSIVE CollectNavs(_)
CollectNavs(ixs) ==
    IF ixs = <<>> THEN <<>> ELSE NavsOf(Head(ixs)) \o CollectNavs(Tail(ixs))

\* A sort that leaves navs as collected.
sort_by_key_Unsorted(navs) == navs

\* navs.sort_by_key(|(i, _nav)| *i): a stable sort, an entry is put behind
\* the entries before it of a key up to its own.
RECURSIVE sort_by_key(_)
sort_by_key(navs) ==
    IF navs = <<>> THEN <<>>
    ELSE LET sorted == sort_by_key(SubSeq(navs, 1, Len(navs) - 1))
             x == navs[Len(navs)]
             n == Cardinality({k \in 1..Len(sorted) : sorted[k].i <= x.i})
         IN  SubSeq(sorted, 1, n) \o <<x>> \o SubSeq(sorted, n + 1, Len(sorted))

\* build_navigation: the links in the order of their positions.
build_navigation(ixs) ==
    LET navs == sort_by_key(CollectNavs(ixs))
    IN  [k \in 1..Len(navs) |-> navs[k].nav]

----------------------------------------------------------------------------
(* The specification of a build up to the nav fragment *)

MaxPages == 3

Root == <<>>
Blog == <<"blog">>

PageMetadata(id, title, display_in_nav, weight, excerpt, date, template_path) ==
    [id |-> id, title |-> title, display_in_nav |-> display_in_nav,
     weight |-> weight, excerpt |-> excerpt, date |-> date,
     template |-> template_path]

\* Dates are written as in the front matter, year month day.
Jan1 == 20230101
Feb1 == 20230201
Mar1 == 20230301

\* Template files: the defaults of pages and indices, one that needs a date
\* and an excerpt, and one that is not there.
PageHtml == "page.html"
IndexHtml == "index.html"
PostHtml == "post.html"
NoneHtml == "none.html"
ListHtml == "list.html"

PageJan == PageMetadata("jan", <<"a">>, None, Some(0 - 1), None, Some(Jan1),
                        PageHtml)
PageMar == PageMetadata("mar", <<"b">>, Some(2), None, Some(<<"m">>),
                        Some(Mar1), PostHtml)
PageFeb == PageMetadata("feb", <<"a", "b">>, Some(1), Some(1), Some(<<"e">>),
                        Some(Feb1), PageHtml)
PageUndated == PageMetadata("undated", <<"B">>, Some(1), Some(1), None, None,
                            PostHtml)

PagePool == {PageJan, PageMar, PageFeb, PageUndated}

\* The pages a directory can hold, in the order read_dir yields them.
PageLists ==
    {ps \in StringsUpTo(PagePool, MaxPages) :
        \A i, j \in 1..Len(ps) : ps[i] = ps[j] => i = j}

IndexMetadata(title, display_in_nav, sort_by, template_path) ==
    [title |-> title, display_in_nav |-> display_in_nav, sort_by |-> sort_by,
     template |-> template_path]

SortOrder == {"Title", "Date", "Weight"}

\* What _index.md of the content directory can say; None without the file.
RootIndices ==
    {None} \cup {Some(IndexMetadata(<<"H", "o", "m", "e">>, n, o, IndexHtml)) :
                    n \in {None, Some(1), Some(2)}, o \in SortOrder}

BlogIndices ==
    {None,
     Some(IndexMetadata(<<"B", "l", "o", "g">>, Some(1), "Title",
                        IndexHtml)),
     Some(IndexMetadata(<<"B", "l", "o", "g">>, None, "Date", IndexHtml))}

BlogPageLists == {<<>>, <<PageMar>>, <<PageUndated, PageFeb>>}

Directory(index, pages, subdirs) ==
    [index |-> index, pages |-> pages, subdirs |-> subdirs]

\* The content directory alone, or with a directory blog in it.
Contents ==
    {(Root :> Directory(ri, ps, <<>>)) : ri \in RootIndices, ps \in PageLists}
    \cup
    {(Root :> Directory(ri, ps, <<Blog>>)) @@ (Blog :> Directory(bi, bs, <<>>)) :
        ri \in RootIndices, ps \in PageLists,
        bi \in BlogIndices, bs \in BlogPageLists}

SiteInit ==
    /\ content \in Contents
    /\ stack = <<Root>>
    /\ dir = <<>>
    /\ pages_handles = <<>>
    /\ indices = <<>>
    /\ nav = None
    /\ lpc = "pop"
    /\ FindIdle
    /\ TemplateIdle
    /\ BuildIdle

\* What can fail to be read or parsed: a directory, its _index.md, and the
\* k-th of its other .md files in the order of read_dir.
DirRef(d) == [dir |-> d, kind |-> "dir", k |-> 0]
IndexRef(d) == [dir |-> d, kind |-> "index", k |-> 0]
PageRef(d, k) == [dir |-> d, kind |-> "page", k |-> k]

\* A read_dir loop that does not push the directories it finds.
LoadPopDir_NoDescent ==
    /\ lpc = "pop"
    /\ stack # <<>>
    /\ DirRef(stack[Len(stack)]) \notin broken
    /\ dir' = stack[Len(stack)]
    /\ stack' = SubSeq(stack, 1, Len(stack) - 1)
    /\ pages_handles' = [k \in 1..Len(content[dir'].pages) |->
                            [page |-> content[dir'].pages[k], done |-> FALSE]]
    /\ lpc' = "parse"
    /\ UNCHANGED <<content, indices, nav>>
    /\ UNCHANGED <<fvars, tvars>>
    /\ UNCHANGED bvars

\* stack.pop() and the read_dir loop: the directories found are pushed and a
\* parse task is spawned for each page.
LoadPopDir ==
    /\ lpc = "pop"
    /\ stack # <<>>
    /\ DirRef(stack[Len(stack)]) \notin broken
    /\ dir' = stack[Len(stack)]
    /\ stack' = SubSeq(stack, 1, Len(stack) - 1) \o content[dir'].subdirs
    /\ pages_handles' = [k \in 1..Len(content[dir'].pages) |->
                            [page |-> content[dir'].pages[k], done |-> FALSE]]
    /\ lpc' = "parse"
    /\ UNCHANGED <<content, indices, nav>>
    /\ UNCHANGED <<fvars, tvars>>
    /\ UNCHANGED bvars

\* A spawned Page::parse_md finishes, with Ok or with Err; the tasks finish
\* in any order, and a task whose handle was dropped runs on.
ParsePage ==
    /\ lpc \in {"parse", "ret"}
    /\ \E k \in 1..Len(pages_handles) :
          /\ ~pages_handles[k].done
          /\ pages_handles' = [pages_handles EXCEPT ![k].done = TRUE]
    /\ UNCHANGED <<content, stack, dir, indices, nav, lpc>>
    /\ UNCHANGED <<fvars, tvars>>
    /\ UNCHANGED bvars

\* An index that is given the pages parsed so far, without the await.
JoinAndSort_Early ==
    /\ lpc = "parse"
    /\ \A k \in 1..Len(pages_handles) :
          pages_handles[k].done => PageRef(dir, k) \notin broken
    /\ content[dir].index.some => IndexRef(dir) \notin broken
    /\ LET parsed == SelectSeq(pages_handles, LAMBDA h : h.done)
           pages == [k \in 1..Len(parsed) |-> parsed[k].page]
           index == content[dir].index
       IN  IF index.some
           THEN \E sorted \in sort_unstable_by(pages, index.val.sort_by) :
                    indices' = Append(indices,
                                      [metadata |-> index.val, dir |-> dir,
                                       pages |-> sorted])
           ELSE indices' = indices
    /\ pages_handles' = <<>>
    /\ lpc' = "pop"
    /\ UNCHANGED <<content, stack, dir, nav>>
    /\ UNCHANGED <<fvars, tvars>>
    /\ UNCHANGED bvars

\* A load that looks for _index.md first and drops the page tasks of a
\* directory without one, whatever they returned.
JoinAndSort_IndexFirst ==
    /\ lpc = "parse"
    /\ \A k \in 1..Len(pages_handles) : pages_handles[k].done
    /\ content[dir].index.some =>
          /\ IndexRef(dir) \notin broken
          /\ \A k \in 1..Len(pages_handles) : PageRef(dir, k) \notin broken
    /\ LET pages == [k \in 1..Len(pages_handles) |-> pages_handles[k].page]
           index == content[dir].index
       IN  IF index.some
           THEN \E sorted \in sort_unstable_by(pages, index.val.sort_by) :
                    indices' = Append(indices,
                                      [metadata |-> index.val, dir |-> dir,
                                       pages |-> sorted])
           ELSE indices' = indices
    /\ pages_handles' = <<>>
    /\ lpc' = "pop"
    /\ UNCHANGED <<content, stack, dir, nav>>
    /\ UNCHANGED <<fvars, tvars>>
    /\ UNCHANGED bvars

\* The handles are awaited in the order they were spawned in; with an
\* _index.md the pages are sorted and the index is pushed to indices.
JoinAndSort ==
    /\ lpc = "parse"
    /\ \A k \in 1..Len(pages_handles) :
          pages_handles[k].done /\ PageRef(dir, k) \notin broken
    /\ content[dir].index.some => IndexRef(dir) \notin broken
    /\ LET pages == [k \in 1..Len(pages_handles) |-> pages_handles[k].page]
           index == content[dir].index
       IN  IF index.some
           THEN \E sorted \in sort_unstable_by(pages, index.val.sort_by) :
                    indices' = Append(indices,
                                      [metadata |-> index.val, dir |-> dir,
                                       pages |-> sorted])
           ELSE indices' = indices
    /\ pages_handles' = <<>>
    /\ lpc' = "pop"
    /\ UNCHANGED <<content, stack, dir, nav>>
    /\ UNCHANGED <<fvars, tvars>>
    /\ UNCHANGED bvars

\* The stack is empty: load_and_parse_content returns Ok(indices).
LoadReturn ==
    /\ lpc = "pop"
    /\ stack = <<>>
    /\ lpc' = "loaded"
    /\ UNCHANGED <<content, stack, dir, pages_handles, indices, nav>>
    /\ UNCHANGED <<fvars, tvars>>
    /\ UNCHANGED bvars

\* ctx.insert("nav", build_navigation(&indices))
BuildNavigation ==
    /\ lpc = "loaded"
    /\ nav' = Some(build_navigation(indices))
    /\ lpc' = "nav"
    /\ UNCHANGED <<content, stack, dir, pages_handles, indices>>
    /\ UNCHANGED <<fvars, tvars>>
    /\ UNCHANGED bvars

SiteNext == LoadPopDir \/ ParsePage \/ JoinAndSort \/ LoadReturn \/ BuildNavigation

SpecSite == SiteInit /\ [][SiteNext]_vars

\* The pages of s are those of t, each once.
SamePages(s, t) ==
    /\ Len(s) = Len(t)
    /\ \A pg \in PagePool :
          Cardinality({k \in 1..Len(s) : s[k] = pg})
              = Cardinality({k \in 1..Len(t) : t[k] = pg})

\* Titles in ascending lexicographic order.
AscendingTitles(ps) ==
    \A i, j \in 1..Len(ps) : i < j => StrCmp(ps[i].title, ps[j].title) # "Greater"

\* Dates in descending order, the pages without a date last.
DescendingDates(ps) ==
    \A i, j \in 1..Len(ps) : i < j =>
        /\ (ps[i].date.some /\ ps[j].date.some) => ps[i].date.val >= ps[j].date.val
        /\ ~ps[i].date.some => ~ps[j].date.some

\* Weights in ascending order, the pages without a weight first.
AscendingWeights(ps) ==
    \A i, j \in 1..Len(ps) : i < j =>
        /\ (ps[i].weight.some /\ ps[j].weight.some) =>
               ps[i].weight.val <= ps[j].weight.val
        /\ ~ps[j].weight.some => ~ps[i].weight.some

\* C9: in every Index of a load the pages are those of its directory, in
\* the order of its sort_by, whatever order the parse tasks finished in:
\* Title gives ascending titles, Date descending dates with the pages
\* without a date last, Weight ascending weights with the pages without a
\* weight first.
C9_PagesSorted ==
    \A n \in 1..Len(indices) :
        LET index == indices[n]
        IN  /\ SamePages(index.pages, content[index.dir].pages)
            /\ index.metadata.sort_by = "Title" => AscendingTitles(index.pages)
            /\ index.metadata.sort_by = "Date" => DescendingDates(index.pages)
            /\ index.metadata.sort_by = "Weight" => AscendingWeights(index.pages)

\* C9 witness: the load has returned an Index sorted by date whose directory
\* holds the pages of January, March and February in this order; its pages
\* are those of March, February and January.
C9_Witness ==
    /\ lpc = "loaded"
    /\ content[Root].pages = <<PageJan, PageMar, PageFeb>>
    /\ Len(indices) >= 1
    /\ indices[1].metadata.sort_by = "Date"
    /\ indices[1].pages = <<PageMar, PageFeb, PageJan>>

\* Every Index and Page of indices, in the order of discovery: an Index, its
\* pages in their order, the next Index.
RECURSIVE Discovered(_)
Discovered(ixs) ==
    IF ixs = <<>> THEN <<>>
    ELSE <<[href |-> Head(ixs).dir,
            display_in_nav |-> Head(ixs).metadata.display_in_nav]>>
         \o [k \in 1..Len(Head(ixs).pages) |->
                [href |-> Head(ixs).dir \o <<Head(ixs).pages[k].id>>,
                 display_in_nav |-> Head(ixs).pages[k].display_in_nav]]
         \o Discovered(Tail(ixs))

\* Where the Index or Page a link leads to stands in the order of
\* discovery; 0 for a link that leads to none.
DiscoveryOf(link) ==
    LET d == Discovered(indices)
        at == {k \in 1..Len(d) : d[k].href = link.href}
    IN  IF at = {} THEN 0 ELSE CHOOSE k \in at : TRUE

\* C10: every link of the nav fragment leads to an Index or a Page whose
\* display_in_nav is set, and the links stand in non-decreasing order of
\* their positions, those of the same position in the order of discovery.
C10_NavOrdered ==
    nav.some =>
        LET d == Discovered(indices)
            links == nav.val
        IN  /\ \A k \in 1..Len(links) :
                  /\ DiscoveryOf(links[k]) # 0
                  /\ d[DiscoveryOf(links[k])].display_in_nav.some
            /\ \A i, j \in 1..Len(links) : i < j =>
                  LET a == d[DiscoveryOf(links[i])]
                      b == d[DiscoveryOf(links[j])]
                  IN  \/ a.display_in_nav.val < b.display_in_nav.val
                      \/ /\ a.display_in_nav.val = b.display_in_nav.val
                         /\ DiscoveryOf(links[i]) < DiscoveryOf(links[j])

\* C10 witness: a nav fragment of the content directory at position 2, of
\* its pages at positions 1 and 2, and of blog at position 1, with a page
\* that is not displayed left out.
C10_Witness ==
    /\ nav.some
    /\ Len(indices) = 2
    /\ indices[1].metadata.display_in_nav = Some(2)
    /\ indices[1].pages = <<PageJan, PageFeb, PageMar>>
    /\ indices[2].metadata.display_in_nav = Some(1)
    /\ [k \in 1..Len(nav.val) |-> nav.val[k].href]
          = <<<<"feb">>, Blog, Root, <<"mar">>>>

\* C11: every Index and every Page of indices whose display_in_nav is set
\* has exactly one link in the nav fragment, also a Page whose Index has no
\* display_in_nav.
C11_EveryDisplayedLinked ==
    nav.some =>
        LET d == Discovered(indices)
        IN  \A k \in 1..Len(d) :
                d[k].display_in_nav.some =>
                    Cardinality({i \in 1..Len(nav.val) :
                                    nav.val[i].href = d[k].href}) = 1

----------------------------------------------------------------------------
(* The failures of a load (src/main.rs, load_and_parse_content) *)

\* read_dir fails: `?` returns the error, indices is dropped.
LoadFailReadDir ==
    /\ lpc = "pop"
    /\ stack # <<>>
    /\ DirRef(stack[Len(stack)]) \in broken
    /\ dir' = stack[Len(stack)]
    /\ stack' = SubSeq(stack, 1, Len(stack) - 1)
    /\ indices' = <<>>
    /\ bresult' = Some(Err("ReadDirectory", dir'))
    /\ lpc' = "ret"
    /\ UNCHANGED <<content, pages_handles, nav>>
    /\ UNCHANGED <<broken, assets, mirror_assets_handle, ectx, eindex, ework,
                   handles, output, reads>>
    /\ UNCHANGED <<fvars, tvars>>

\* A loader that leaves out the directory of a page that fails and goes on.
LoadFailPage_Continues ==
    /\ lpc = "parse"
    /\ \E k \in 1..Len(pages_handles) :
          /\ pages_handles[k].done
          /\ PageRef(dir, k) \in broken
    /\ pages_handles' = <<>>
    /\ lpc' = "pop"
    /\ UNCHANGED <<content, stack, dir, indices, nav>>
    /\ UNCHANGED bvars
    /\ UNCHANGED <<fvars, tvars>>

\* The handles are awaited in their order: the first one that holds an error
\* returns it by `??`, whatever the tasks behind it are doing.
LoadFailPage ==
    /\ lpc = "parse"
    /\ \E k \in 1..Len(pages_handles) :
          /\ pages_handles[k].done
          /\ PageRef(dir, k) \in broken
          /\ \A j \in 1..(k - 1) :
                pages_handles[j].done /\ PageRef(dir, j) \notin broken
          /\ bresult' = Some(Err("ParseMetadata", PageRef(dir, k)))
    /\ indices' = <<>>
    /\ lpc' = "ret"
    /\ UNCHANGED <<content, stack, dir, pages_handles, nav>>
    /\ UNCHANGED <<broken, assets, mirror_assets_handle, ectx, eindex, ework,
                   handles, output, reads>>
    /\ UNCHANGED <<fvars, tvars>>

\* The pages are joined and Index::parse_md fails.
LoadFailIndex ==
    /\ lpc = "parse"
    /\ \A k \in 1..Len(pages_handles) :
          pages_handles[k].done /\ PageRef(dir, k) \notin broken
    /\ content[dir].index.some
    /\ IndexRef(dir) \in broken
    /\ bresult' = Some(Err("ParseMetadata", IndexRef(dir)))
    /\ indices' = <<>>
    /\ pages_handles' = <<>>
    /\ lpc' = "ret"
    /\ UNCHANGED <<content, stack, dir, nav>>
    /\ UNCHANGED <<broken, assets, mirror_assets_handle, ectx, eindex, ework,
                   handles, output, reads>>
    /\ UNCHANGED <<fvars, tvars>>

----------------------------------------------------------------------------
(* Asset mirroring (src/main.rs, mirror_assets) *)

\* The writes of files below output_path: by path, who wrote and what.
Written(out, path, by, text) ==
    [x \in DOMAIN out \cup {path} |->
        IF x # path THEN out[x]
        ELSE IF path \in DOMAIN out
             THEN Append(out[path], [by |-> by, text |-> text])
             ELSE <<[by |-> by, text |-> text]>>]

MirrorUnit == [kind |-> "asset"]

\* The files of assets that mirror_assets has not copied yet.
NotCopied ==
    {k \in 1..Len(assets.val) :
        \/ <<assets.val[k]>> \notin DOMAIN output
        \/ \A n \in 1..Len(output[<<assets.val[k]>>]) :
              output[<<assets.val[k]>>][n].by # MirrorUnit}

\* read_dir of a missing assets directory fails.
MirrorFail ==
    /\ mirror_assets_handle = "running"
    /\ ~assets.some
    /\ mirror_assets_handle' = "err"
    /\ UNCHANGED <<broken, assets, ectx, eindex, ework, handles, output, reads,
                   bresult>>
    /\ UNCHANGED <<fvars, tvars, svars>>

\* tokio::fs::copy of the next file.
MirrorCopy ==
    /\ mirror_assets_handle = "running"
    /\ assets.some
    /\ NotCopied # {}
    /\ LET k == CHOOSE n \in NotCopied : \A m \in NotCopied : n <= m
       IN  output' = Written(output, <<assets.val[k]>>, MirrorUnit,
                             <<"asset", assets.val[k]>>)
    /\ UNCHANGED <<broken, assets, mirror_assets_handle, ectx, eindex, ework,
                   handles, reads, bresult>>
    /\ UNCHANGED <<fvars, tvars, svars>>

\* The stack of mirror_assets is empty: Ok(()).
MirrorDone ==
    /\ mirror_assets_handle = "running"
    /\ assets.some
    /\ NotCopied = {}
    /\ mirror_assets_handle' = "ok"
    /\ UNCHANGED <<broken, assets, ectx, eindex, ework, handles, output, reads,
                   bresult>>
    /\ UNCHANGED <<fvars, tvars, svars>>

----------------------------------------------------------------------------
(* The export (src/main.rs, Website::build and export_indices_to_html) *)

KeyTitle == <<"t", "i", "t", "l", "e">>
KeyContent == <<"c", "o", "n", "t", "e", "n", "t">>
KeyExcerpt == <<"e", "x", "c", "e", "r", "p", "t">>
KeyDate == <<"d", "a", "t", "e">>
KeyDateIso == <<"d", "a", "t", "e", "_", "i", "s", "o", "8", "6", "0", "1">>
KeyNav == <<"n", "a", "v">>
KeyArticles == <<"a", "r", "t", "i", "c", "l", "e", "s">>
KeySiteTitle == <<"s", "i", "t", "e", "_", "t", "i", "t", "l", "e">>
KeySiteDescription == <<"s", "i", "t", "e", "_", "d", "e", "s", "c", "r", "i",
                        "p", "t", "i", "o", "n">>

\* ctx.insert(key, value)
Insert(c, key, value) ==
    [x \in DOMAIN c \cup {key} |-> IF x = key THEN value ELSE c[x]]

\* A number below 32 in two digits, as one piece of text.
TwoDigits(n) ==
    <<"00", "01", "02", "03", "04", "05", "06", "07", "08", "09", "10", "11",
      "12", "13", "14", "15", "16", "17", "18", "19", "20", "21", "22", "23",
      "24", "25", "26", "27", "28", "29", "30", "31">>[n + 1]

\* [year]-[month]-[day] of a date
YearMonthDay(date) ==
    <<TwoDigits(date \div 1000000), TwoDigits((date \div 10000) % 100), "-",
      TwoDigits((date \div 100) % 100), "-", TwoDigits(date % 100)>>

format_date_iso8601(date) == YearMonthDay(date) \o <<"T00:00:00Z">>

format_date_utc(date) == YearMonthDay(date) \o <<" 00:00Z">>

\* The HTML of a page and of an index, as convert_markdown leaves it.
PageBody(page) == <<"<p>", page.id, "</p>">>
IndexBody(index) == <<"<h1>">> \o index.dir \o <<"</h1>">>

\* The pages of all indices, each with the directory of its index.
RECURSIVE AllPages(_)
AllPages(ixs) ==
    IF ixs = <<>> THEN <<>>
    ELSE [k \in 1..Len(Head(ixs).pages) |->
            [dir |-> Head(ixs).dir, page |-> Head(ixs).pages[k]]]
         \o AllPages(Tail(ixs))

RECURSIVE Flatten(_)
Flatten(ss) == IF ss = <<>> THEN <<>> ELSE Head(ss) \o Flatten(Tail(ss))

build_article_list(ixs) ==
    LET dated == SelectSeq(AllPages(ixs),
                           LAMBDA e : e.page.date.some /\ e.page.excerpt.some)
    IN  Flatten([k \in 1..Len(dated) |->
            <<"<a href=/">> \o dated[k].dir \o <<dated[k].page.id, "/>">>
            \o dated[k].page.title
            \o <<"<time datetime=">>
            \o format_date_iso8601(dated[k].page.date.val) \o <<">">>
            \o format_date_utc(dated[k].page.date.val)
            \o <<"<p>">> \o dated[k].page.excerpt.val])

\* The links of the navigation as one string.
NavHtml(links) ==
    Flatten([k \in 1..Len(links) |->
                <<"<a href=/">> \o links[k].href \o <<"/>">> \o links[k].title])

SiteTitle == <<"S">>
SiteDescription == <<"D">>

\* The context of Website::build
SiteContext(ixs, links) ==
    (KeyNav :> NavHtml(links)) @@ (KeyArticles :> build_article_list(ixs))
    @@ (KeySiteTitle :> SiteTitle) @@ (KeySiteDescription :> SiteDescription)

\* Build index context
IndexContext(c, index) ==
    Insert(Insert(c, KeyTitle, index.metadata.title),
           KeyContent, IndexBody(index))

PageContext_SharesExcerpt(c, page) ==
    LET c1 == Insert(Insert(c, KeyContent, PageBody(page)),
                     KeyTitle, page.title)
        c2 == Insert(c1, KeyExcerpt,
                     IF page.excerpt.some THEN page.excerpt.val ELSE <<"m">>)
    IN  IF page.date.some
        THEN Insert(Insert(c2, KeyDateIso, format_date_iso8601(page.date.val)),
                    KeyDate, format_date_utc(page.date.val))
        ELSE c2

\* Build page context
PageContext(c, page) ==
    LET c1 == Insert(Insert(c, KeyContent, PageBody(page)),
                     KeyTitle, page.title)
        c2 == IF page.excerpt.some
              THEN Insert(c1, KeyExcerpt, page.excerpt.val)
              ELSE c1
    IN  IF page.date.some
        THEN Insert(Insert(c2, KeyDateIso, format_date_iso8601(page.date.val)),
                    KeyDate, format_date_utc(page.date.val))
        ELSE c2

\* The files of the templates directory.
Templates ==
    (IndexHtml :> TagText(<<SPC>>, KeyTitle) \o TagText(<<>>, KeyContent))
    @@ (PageHtml :> TagText(<<>>, KeyTitle) \o TagText(<<>>, KeyContent))
    @@ (PostHtml :> TagText(<<>>, KeyTitle) \o TagText(<<>>, KeyDate)
                    \o TagText(<<>>, KeyExcerpt))
    @@ (ListHtml :> TagText(<<>>, KeyTitle) \o TagText(<<>>, KeyNav)
                    \o TagText(<<SPC>>, KeyArticles))

\* A read that is served from memory once the file has been read.
Read_Cached(r, path) ==
    [x \in DOMAIN r \cup {path} |-> IF x \in DOMAIN r THEN r[x] ELSE 1]

\* A read of a template file.
Read(r, path) ==
    [x \in DOMAIN r \cup {path} |->
        IF x # path THEN r[x]
        ELSE IF path \in DOMAIN r THEN r[path] + 1 ELSE 1]

IndexUnit(n) == [kind |-> "index", index |-> n, page |-> 0]
PageUnit(n, k) == [kind |-> "page", index |-> n, page |-> k]

IndexFile(index) == index.dir \o <<"index.html">>
PageFile(index, page) == index.dir \o <<page.id, "index.html">>

\* Fill templating context
BuildContext ==
    /\ lpc = "nav"
    /\ ectx' = SiteContext(indices, nav.val)
    /\ eindex' = 1
    /\ lpc' = "export"
    /\ UNCHANGED <<content, stack, dir, pages_handles, indices, nav>>
    /\ UNCHANGED <<broken, assets, mirror_assets_handle, ework, handles,
                   output, reads, bresult>>
    /\ UNCHANGED <<fvars, tvars>>

\* The next index: its directory is created, its title and content are
\* inserted into ctx and its template is read.
ExportIndexRead ==
    /\ lpc = "export"
    /\ eindex <= Len(indices)
    /\ indices[eindex].metadata.template \in DOMAIN Templates
    /\ ectx' = IndexContext(ectx, indices[eindex])
    /\ reads' = Read(reads, indices[eindex].metadata.template)
    /\ ework' = Templates[indices[eindex].metadata.template]
    /\ lpc' = "expand"
    /\ UNCHANGED <<content, stack, dir, pages_handles, indices, nav>>
    /\ UNCHANGED <<broken, assets, mirror_assets_handle, eindex, handles,
                   output, bresult>>
    /\ UNCHANGED <<fvars, tvars>>

\* The template of the index cannot be read.
ExportIndexReadFail ==
    /\ lpc = "export"
    /\ eindex <= Len(indices)
    /\ indices[eindex].metadata.template \notin DOMAIN Templates
    /\ ectx' = IndexContext(ectx, indices[eindex])
    /\ bresult' = Some(Err("ReadInput", indices[eindex].metadata.template))
    /\ lpc' = "ret"
    /\ UNCHANGED <<content, stack, dir, pages_handles, indices, nav>>
    /\ UNCHANGED <<broken, assets, mirror_assets_handle, eindex, ework,
                   handles, output, reads>>
    /\ UNCHANGED <<fvars, tvars>>

\* template::template of the index
ExportIndexExpand ==
    /\ lpc = "expand"
    /\ LET r == template(ework, <<>>, ectx)
       IN  /\ r.some /\ r.val.ok
           /\ ework' = r.val.val
    /\ lpc' = "write"
    /\ UNCHANGED <<content, stack, dir, pages_handles, indices, nav>>
    /\ UNCHANGED <<broken, assets, mirror_assets_handle, ectx, eindex, handles,
                   output, reads, bresult>>
    /\ UNCHANGED <<fvars, tvars>>

ExportIndexExpandFail ==
    /\ lpc = "expand"
    /\ LET r == template(ework, <<>>, ectx)
       IN  /\ r.some /\ ~r.val.ok
           /\ bresult' = r
    /\ lpc' = "ret"
    /\ UNCHANGED <<content, stack, dir, pages_handles, indices, nav>>
    /\ UNCHANGED <<broken, assets, mirror_assets_handle, ectx, eindex, ework,
                   handles, output, reads>>
    /\ UNCHANGED <<fvars, tvars>>

\* index.html is written, and a task is spawned for each page of the index
\* with a clone of ctx.
ExportIndexWrite ==
    /\ lpc = "write"
    /\ output' = Written(output, IndexFile(indices[eindex]), IndexUnit(eindex),
                         ework)
    /\ handles' = [k \in 1..Len(indices[eindex].pages) |->
                     [page |-> indices[eindex].pages[k], ctx |-> ectx,
                      pc |-> "read", text |-> <<>>, result |-> None]]
    /\ lpc' = "join"
    /\ UNCHANGED <<content, stack, dir, pages_handles, indices, nav>>
    /\ UNCHANGED <<broken, assets, mirror_assets_handle, ectx, eindex, ework,
                   reads, bresult>>
    /\ UNCHANGED <<fvars, tvars>>

\* A page task inserts the fields of its page into its ctx and reads its
\* template.
PageRead ==
    /\ \E k \in 1..Len(handles) :
          /\ handles[k].pc = "read"
          /\ handles[k].page.template \in DOMAIN Templates
          /\ reads' = Read(reads, handles[k].page.template)
          /\ handles' = [handles EXCEPT
                ![k].ctx = PageContext(handles[k].ctx, handles[k].page),
                ![k].text = Templates[handles[k].page.template],
                ![k].pc = "expand"]
    /\ UNCHANGED <<broken, assets, mirror_assets_handle, ectx, eindex, ework,
                   output, bresult>>
    /\ UNCHANGED <<fvars, tvars, svars>>

PageReadFail ==
    /\ \E k \in 1..Len(handles) :
          /\ handles[k].pc = "read"
          /\ handles[k].page.template \notin DOMAIN Templates
          /\ handles' = [handles EXCEPT
                ![k].ctx = PageContext(handles[k].ctx, handles[k].page),
                ![k].result = Some(Err("ReadInput", handles[k].page.template)),
                ![k].pc = "done"]
    /\ UNCHANGED <<broken, assets, mirror_assets_handle, ectx, eindex, ework,
                   output, reads, bresult>>
    /\ UNCHANGED <<fvars, tvars, svars>>

\* template::template of a page
PageExpand ==
    /\ \E k \in 1..Len(handles) :
          /\ handles[k].pc = "expand"
          /\ LET r == template(handles[k].text, <<>>, handles[k].ctx)
             IN  /\ r.some /\ r.val.ok
                 /\ handles' = [handles EXCEPT ![k].text = r.val.val,
                                               ![k].pc = "write"]
    /\ UNCHANGED <<broken, assets, mirror_assets_handle, ectx, eindex, ework,
                   output, reads, bresult>>
    /\ UNCHANGED <<fvars, tvars, svars>>

PageExpandFail ==
    /\ \E k \in 1..Len(handles) :
          /\ handles[k].pc = "expand"
          /\ LET r == template(handles[k].text, <<>>, handles[k].ctx)
             IN  /\ r.some /\ ~r.val.ok
                 /\ handles' = [handles EXCEPT ![k].result = r,
                                               ![k].pc = "done"]
    /\ UNCHANGED <<broken, assets, mirror_assets_handle, ectx, eindex, ework,
                   output, reads, bresult>>
    /\ UNCHANGED <<fvars, tvars, svars>>

\* Write page HTML to file
PageWrite ==
    /\ \E k \in 1..Len(handles) :
          /\ handles[k].pc = "write"
          /\ output' = Written(output,
                               PageFile(indices[eindex], handles[k].page),
                               PageUnit(eindex, k), handles[k].text)
          /\ handles' = [handles EXCEPT ![k].result = Some(Ok(<<>>)),
                                        ![k].pc = "done"]
    /\ UNCHANGED <<broken, assets, mirror_assets_handle, ectx, eindex, ework,
                   reads, bresult>>
    /\ UNCHANGED <<fvars, tvars, svars>>

\* The next index is taken up without a look at the handles.
ExportJoinPages_NoWait ==
    /\ lpc = "join"
    /\ eindex' = eindex + 1
    /\ handles' = <<>>
    /\ lpc' = "export"
    /\ UNCHANGED <<content, stack, dir, pages_handles, indices, nav>>
    /\ UNCHANGED <<broken, assets, mirror_assets_handle, ectx, ework, output,
                   reads, bresult>>
    /\ UNCHANGED <<fvars, tvars>>

\* Every handle is awaited and holds Ok: on to the next index.
ExportJoinPages ==
    /\ lpc = "join"
    /\ \A k \in 1..Len(handles) :
          handles[k].pc = "done" /\ handles[k].result.val.ok
    /\ eindex' = eindex + 1
    /\ handles' = <<>>
    /\ lpc' = "export"
    /\ UNCHANGED <<content, stack, dir, pages_handles, indices, nav>>
    /\ UNCHANGED <<broken, assets, mirror_assets_handle, ectx, ework, output,
                   reads, bresult>>
    /\ UNCHANGED <<fvars, tvars>>

\* The handles are awaited in their order: the first one that holds an error
\* returns it by `??`, whatever the tasks behind it are doing.
ExportJoinFail ==
    /\ lpc = "join"
    /\ \E k \in 1..Len(handles) :
          /\ handles[k].pc = "done"
          /\ ~handles[k].result.val.ok
          /\ \A j \in 1..(k - 1) :
                handles[j].pc = "done" /\ handles[j].result.val.ok
          /\ bresult' = handles[k].result
    /\ lpc' = "ret"
    /\ UNCHANGED <<content, stack, dir, pages_handles, indices, nav>>
    /\ UNCHANGED <<broken, assets, mirror_assets_handle, ectx, eindex, ework,
                   handles, output, reads>>
    /\ UNCHANGED <<fvars, tvars>>

\* No index is left: export_indices_to_html returns Ok(()).
ExportReturn ==
    /\ lpc = "export"
    /\ eindex > Len(indices)
    /\ lpc' = "mirror"
    /\ UNCHANGED <<content, stack, dir, pages_handles, indices, nav>>
    /\ UNCHANGED bvars
    /\ UNCHANGED <<fvars, tvars>>

\* A build that drops the result of mirror_assets at the join.
JoinMirror_IgnoresError ==
    /\ lpc = "mirror"
    /\ mirror_assets_handle \in {"ok", "err"}
    /\ bresult' = Some(Ok(<<>>))
    /\ lpc' = "ret"
    /\ UNCHANGED <<content, stack, dir, pages_handles, indices, nav>>
    /\ UNCHANGED <<broken, assets, mirror_assets_handle, ectx, eindex, ework,
                   handles, output, reads>>
    /\ UNCHANGED <<fvars, tvars>>

\* mirror_assets_handle.await and the return of build
JoinMirror ==
    /\ lpc = "mirror"
    /\ mirror_assets_handle \in {"ok", "err"}
    /\ bresult' = IF mirror_assets_handle = "ok" THEN Some(Ok(<<>>))
                  ELSE Some(Err("ReadDirectory", <<"assets">>))
    /\ lpc' = "ret"
    /\ UNCHANGED <<content, stack, dir, pages_handles, indices, nav>>
    /\ UNCHANGED <<broken, assets, mirror_assets_handle, ectx, eindex, ework,
                   handles, output, reads>>
    /\ UNCHANGED <<fvars, tvars>>

----------------------------------------------------------------------------
(* Builds of whole sites *)

MaxBroken == 1

Deep == <<"blog", "deep">>

\* A page with the id of PageFeb, one with the name of the directory blog,
\* and one whose template is not there.
PageTwin == PageMetadata("feb", <<"b", "b">>, None, None, None, None, PageHtml)
PageBlog == PageMetadata("blog", <<"l", "o", "g">>, None, None, None, None,
                         PageHtml)
PageNoTemplate == PageMetadata("lost", <<"H">>, None, None, None, None,
                               NoneHtml)

Home(display_in_nav, sort_by, template_path) ==
    Some(IndexMetadata(<<"H", "o", "m", "e">>, display_in_nav, sort_by,
                       template_path))

BlogIndex(sort_by) ==
    Some(IndexMetadata(<<"B", "l", "o", "g">>, Some(1), sort_by, IndexHtml))

SiteNavless ==
    (Root :> Directory(Home(None, "Date", IndexHtml), <<PageJan, PageMar>>,
                       <<>>))

SiteTwins ==
    (Root :> Directory(Home(Some(1), "Title", IndexHtml),
                       <<PageFeb, PageTwin>>, <<Blog>>))
    @@ (Blog :> Directory(BlogIndex("Title"), <<PageMar>>, <<>>))

SiteClash ==
    (Root :> Directory(Home(Some(1), "Weight", IndexHtml),
                       <<PageBlog, PageJan>>, <<Blog>>))
    @@ (Blog :> Directory(BlogIndex("Date"), <<PageFeb, PageJan>>, <<>>))

SiteDeep ==
    (Root :> Directory(None, <<PageJan>>, <<Blog>>))
    @@ (Blog :> Directory(None, <<PageFeb>>, <<Deep>>))
    @@ (Deep :> Directory(BlogIndex("Title"), <<PageMar, PageUndated>>, <<>>))

SiteLost ==
    (Root :> Directory(Home(Some(2), "Title", IndexHtml),
                       <<PageJan, PageNoTemplate>>, <<>>))

SiteBare ==
    (Root :> Directory(Home(None, "Title", NoneHtml), <<PageJan>>, <<>>))

SitePost ==
    (Root :> Directory(Home(None, "Title", PostHtml), <<>>, <<>>))

News == <<"news">>

\* A navigation and a list of articles on the front page, and two
\* directories that read_dir yields in one order or in the other.
SiteForked ==
    (Root :> Directory(Home(None, "Title", ListHtml), <<>>, <<Blog, News>>))
    @@ (Blog :> Directory(BlogIndex("Date"), <<PageFeb, PageMar>>, <<>>))
    @@ (News :> Directory(BlogIndex("Title"), <<PageJan>>, <<>>))

SiteForkedBack ==
    (Root :> Directory(Home(None, "Title", ListHtml), <<>>, <<News, Blog>>))
    @@ (Blog :> Directory(BlogIndex("Date"), <<PageFeb, PageMar>>, <<>>))
    @@ (News :> Directory(BlogIndex("Title"), <<PageJan>>, <<>>))

BuildContents ==
    {SiteNavless, SiteTwins, SiteClash, SiteDeep, SiteLost, SiteBare, SitePost,
     SiteForked, SiteForkedBack}

\* The directories and files of a content tree.
FilesOf(c) ==
    {DirRef(d) : d \in DOMAIN c}
    \cup {IndexRef(d) : d \in {e \in DOMAIN c : c[e].index.some}}
    \cup UNION {{PageRef(d, k) : k \in 1..Len(c[d].pages)} : d \in DOMAIN c}

\* The files of the assets directory; None without the directory.
AssetDirs == {None, Some(<<"style.css">>), Some(<<"index.html">>)}

BuildInit ==
    /\ content \in BuildContents
    /\ broken \in {b \in SUBSET FilesOf(content) : Cardinality(b) <= MaxBroken}
    /\ assets \in AssetDirs
    /\ mirror_assets_handle = "idle"
    /\ stack = <<Root>>
    /\ dir = <<>>
    /\ pages_handles = <<>>
    /\ indices = <<>>
    /\ nav = None
    /\ lpc = "start"
    /\ ectx = <<>> /\ eindex = 0 /\ ework = <<>> /\ handles = <<>>
    /\ output = <<>> /\ reads = <<>> /\ bresult = None
    /\ FindIdle
    /\ TemplateIdle

\* tokio::spawn of mirror_assets, before the content is loaded
SpawnMirror ==
    /\ lpc = "start"
    /\ mirror_assets_handle' = "running"
    /\ lpc' = "pop"
    /\ UNCHANGED <<content, stack, dir, pages_handles, indices, nav>>
    /\ UNCHANGED <<broken, assets, ectx, eindex, ework, handles, output, reads,
                   bresult>>
    /\ UNCHANGED <<fvars, tvars>>

BuildNext ==
    \/ SpawnMirror
    \/ MirrorFail \/ MirrorCopy \/ MirrorDone
    \/ LoadPopDir \/ ParsePage \/ JoinAndSort \/ LoadReturn
    \/ LoadFailReadDir \/ LoadFailPage \/ LoadFailIndex
    \/ BuildNavigation \/ BuildContext
    \/ ExportIndexRead \/ ExportIndexReadFail
    \/ ExportIndexExpand \/ ExportIndexExpandFail
    \/ ExportIndexWrite
    \/ PageRead \/ PageReadFail \/ PageExpand \/ PageExpandFail \/ PageWrite
    \/ ExportJoinPages \/ ExportJoinFail \/ ExportReturn
    \/ JoinMirror

SpecBuild == BuildInit /\ [][BuildNext]_vars

BuildTypeOK == lpc \in {"start", "pop", "parse", "loaded", "nav", "export",
                        "expand", "write", "join", "mirror", "ret"}

----------------------------------------------------------------------------
(* Claims about the build *)

BuildOk == lpc = "ret" /\ bresult.some /\ bresult.val.ok
BuildErr == lpc = "ret" /\ bresult.some /\ ~bresult.val.ok

\* The export units of indices: an index n, or the k-th page of index n.
Units ==
    {IndexUnit(n) : n \in 1..Len(indices)}
    \cup UNION {{PageUnit(n, k) : k \in 1..Len(indices[n].pages)} :
                    n \in 1..Len(indices)}

TemplateOf(u) ==
    IF u.kind = "index" THEN indices[u.index].metadata.template
    ELSE indices[u.index].pages[u.page].template

\* Some unit has begun its export: it expands, has written, or runs as a task.
ExportBegun ==
    \/ lpc \in {"expand", "write", "join"}
    \/ handles # <<>>
    \/ \E path \in DOMAIN output :
          \E n \in 1..Len(output[path]) : output[path][n].by # MirrorUnit

ReadByUnit(path) ==
    \/ /\ lpc = "export" /\ lpc' = "expand"
       /\ indices[eindex].metadata.template = path
    \/ \E k \in 1..Len(handles) :
          /\ handles[k].pc = "read" /\ handles'[k].pc = "expand"
          /\ handles[k].page.template = path

ReadsOfBuild ==
    BuildOk =>
        \A path \in DOMAIN Templates :
            LET n == Cardinality({u \in Units : TemplateOf(u) = path})
            IN  IF n = 0 THEN path \notin DOMAIN reads
                ELSE path \in DOMAIN reads /\ reads[path] = n

C13_SiblingsAwaited ==
    BuildErr =>
        /\ \A k \in 1..Len(pages_handles) : pages_handles[k].done
        /\ \A k \in 1..Len(handles) : handles[k].pc = "done"

FileOf(u) ==
    IF u.kind = "index" THEN IndexFile(indices[u.index])
    ELSE PageFile(indices[u.index], indices[u.index].pages[u.page])

\* The ids of the pages of each Index are pairwise different.
SiblingIdsDistinct ==
    \A n \in 1..Len(indices) :
        \A j, k \in 1..Len(indices[n].pages) :
            indices[n].pages[j].id = indices[n].pages[k].id => j = k

\* C14: the output files of the Indices and Pages of a build, whose sibling
\* Pages have different ids, are pairwise distinct.
C14_OutputPathsDistinct ==
    (lpc \in {"loaded", "nav", "export"} /\ SiblingIdsDistinct) =>
        \A u, v \in Units : u # v => FileOf(u) # FileOf(v)

\* The unit has written its file.
Finished(u) ==
    /\ FileOf(u) \in DOMAIN output
    /\ \E n \in 1..Len(output[FileOf(u)]) : output[FileOf(u)][n].by = u

\* The export of the unit has begun: of an Index when its context is built,
\* of a Page when its task is spawned.
Started(u) ==
    \/ u.index < eindex
    \/ /\ u.index = eindex
       /\ IF u.kind = "index" THEN lpc \in {"expand", "write", "join"}
          ELSE lpc = "join"

Exporting == lpc \in {"export", "expand", "write", "join"}

C16_MirrorJoinedLast ==
    /\ lpc = "ret" => mirror_assets_handle \in {"ok", "err"}
    /\ BuildOk => mirror_assets_handle = "ok"
    /\ lpc \notin {"start"} => mirror_assets_handle # "idle"

PerPageKeys == {KeyExcerpt, KeyDate, KeyDateIso}

\* The context holds the fields of the page, and no field of another page.
OwnPageContext(c, page) ==
    /\ KeyTitle \in DOMAIN c /\ c[KeyTitle] = page.title
    /\ KeyContent \in DOMAIN c /\ c[KeyContent] = PageBody(page)
    /\ KeyExcerpt \in DOMAIN c <=> page.excerpt.some
    /\ page.excerpt.some => c[KeyExcerpt] = page.excerpt.val
    /\ KeyDate \in DOMAIN c <=> page.date.some
    /\ KeyDateIso \in DOMAIN c <=> page.date.some
    /\ page.date.some =>
          /\ c[KeyDate] = format_date_utc(page.date.val)
          /\ c[KeyDateIso] = format_date_iso8601(page.date.val)

OwnContexts ==
    /\ lpc = "expand" =>
          /\ KeyTitle \in DOMAIN ectx
          /\ ectx[KeyTitle] = indices[eindex].metadata.title
          /\ KeyContent \in DOMAIN ectx
          /\ ectx[KeyContent] = IndexBody(indices[eindex])
    /\ DOMAIN ectx \cap PerPageKeys = {}
    /\ \A k \in 1..Len(handles) :
          handles[k].pc = "expand" =>
              OwnPageContext(handles[k].ctx, handles[k].page)

\* C17: the context a template is expanded with holds the title and the
\* content of the unit itself, holds excerpt, date and date_iso8601 only
\* for a Page that has them, with the values of that Page, and is left as
\* it is by every step taken while the unit expands its template.
C17_ContextIsolated ==
    /\ []OwnContexts
    /\ [][/\ (lpc = "expand" /\ lpc' = "expand") => ectx' = ectx
          /\ \A k \in 1..Len(handles) :
                (handles[k].pc = "expand" /\ k \in 1..Len(handles')
                 /\ handles'[k].pc = "expand")
                    => handles'[k].ctx = handles[k].ctx]_vars

\* C17 witness: a Page without an excerpt expands its template while its
\* sibling holds an excerpt and a date in its own context.
C17_Witness ==
    /\ Len(handles) = 2
    /\ handles[1].pc = "expand"
    /\ handles[2].pc = "expand"
    /\ ~handles[2].page.excerpt.some
    /\ KeyExcerpt \in DOMAIN handles[1].ctx
    /\ KeyExcerpt \notin DOMAIN handles[2].ctx

\* The elements of s are those of t, each as often.
SameFiles(s, t) ==
    /\ Len(s) = Len(t)
    /\ \A k \in 1..Len(s) :
          Cardinality({j \in 1..Len(s) : s[j] = s[k]})
              = Cardinality({j \in 1..Len(t) : t[j] = s[k]})

\* C18: an Index is pushed to indices in a step that finds every page task
\* of its directory completed, and the pages of every Index of indices are
\* the .md files of its own directory other than _index.md, each once.
C18_PagesJoinedFirst ==
    /\ [](\A n \in 1..Len(indices) :
              SameFiles(indices[n].pages, content[indices[n].dir].pages))
    /\ [][Len(indices') > Len(indices) =>
            /\ \A k \in 1..Len(pages_handles) : pages_handles[k].done
            /\ indices'[Len(indices')].dir = dir
            /\ Len(indices'[Len(indices')].pages) = Len(pages_handles)]_vars

\* C18 witness: two directories with pages of their own are loaded, the
\* second one with two pages.
C18_Witness ==
    /\ lpc = "loaded"
    /\ Len(indices) = 2
    /\ Len(indices[1].pages) = 2
    /\ Len(indices[2].pages) = 2
    /\ indices[1].pages # indices[2].pages

\* The directories of indices are those with an _index.md, each once.
IndexPerDirectory ==
    /\ {indices[n].dir : n \in 1..Len(indices)}
          = {d \in DOMAIN content : content[d].index.some}
    /\ \A m, n \in 1..Len(indices) : indices[m].dir = indices[n].dir => m = n

C20_LoadFailsWhole ==
    broken # {} =>
        /\ lpc \in {"start", "pop", "parse", "ret"}
        /\ lpc = "ret" => (indices = <<>> /\ BuildErr)
        /\ nav = None /\ ectx = <<>> /\ handles = <<>> /\ reads = <<>>
        /\ \A path \in DOMAIN output :
              \A n \in 1..Len(output[path]) : output[path][n].by = MirrorUnit

\* C20 witness: the Index of the content directory was pushed and the
\* _index.md of blog fails: the load has returned without it.
C20_Witness ==
    /\ lpc = "ret"
    /\ broken = {IndexRef(Blog)}
    /\ content[Root].index.some
    /\ indices = <<>>
    /\ bresult = Some(Err("ParseMetadata", IndexRef(Blog)))

SpecBuildFair == BuildInit /\ [][BuildNext]_vars /\ WF_vars(BuildNext)

----------------------------------------------------------------------------
(* parse_file (src/main.rs) *)

PLUS == "+"
\* "+++"
FRONTMATTER == <<PLUS, PLUS, PLUS>>

\* input.splitn(3, "+++"): the pieces between the first two occurrences of
\* the pattern, the last piece being all that is left.
Splitn3(inp) ==
    Let(StrFind(inp, FRONTMATTER), LAMBDA first :
        IF ~first.some THEN <<inp>>
        ELSE Let(Tail0(inp, first.val + 3), LAMBDA after :
                 Let(StrFind(after, FRONTMATTER), LAMBDA second :
                     IF ~second.some THEN <<Slice(inp, 0, first.val), after>>
                     ELSE <<Slice(inp, 0, first.val),
                            Slice(after, 0, second.val),
                            Tail0(after, second.val + 3)>>)))

\* input.split("+++"): a piece for every occurrence.
RECURSIVE SplitAll(_)
SplitAll(inp) ==
    Let(StrFind(inp, FRONTMATTER), LAMBDA first :
        IF ~first.some THEN <<inp>>
        ELSE <<Slice(inp, 0, first.val)>> \o SplitAll(Tail0(inp, first.val + 3)))

\* A parse_file that splits at every occurrence of the pattern.
parse_file_SplitsAll(inp) ==
    Let(SplitAll(inp), LAMBDA split :
        IF Len(split) < 3 THEN Err("MalformedContent", <<>>)
        ELSE Ok(<<split[2], Trim(split[3])>>))

\* parse_file(input, filepath): Ok((frontmatter, markdown))
parse_file(inp) ==
    Let(Splitn3(inp), LAMBDA split :
        IF Len(split) < 3 THEN Err("MalformedContent", <<>>)
        ELSE Ok(<<split[2], Trim(split[3])>>))

MaxParts == 5

\* The pieces a file text is put together from.
FileParts == {FRONTMATTER, <<PLUS>>, <<"x">>, <<SPC>>}

FileTexts == {Concat(fs) : fs \in StringsUpTo(FileParts, MaxParts)}

ParseInit ==
    /\ pinput \in FileTexts
    /\ presult = None
    /\ ppc = "call"
    /\ finput = <<>> /\ found = None /\ fpc = "idle"
    /\ TemplateIdle
    /\ SiteIdle
    /\ BuildIdle

ParseFile ==
    /\ ppc = "call"
    /\ presult' = parse_file(pinput)
    /\ ppc' = "ret"
    /\ UNCHANGED <<finput, found, fpc, pinput>>
    /\ UNCHANGED <<tvars, svars, bvars>>

ParseNext == ParseFile

SpecParse == ParseInit /\ [][ParseNext]_vars

\* The offsets at which "+++" occurs in s, read from the left, each
\* occurrence beginning behind the one before it.
RECURSIVE OccurrencesFrom(_, _)
OccurrencesFrom(s, i) ==
    IF i + 3 > Len(s) THEN <<>>
    ELSE IF \A k \in 1..3 : s[i + k] = PLUS
         THEN <<i>> \o OccurrencesFrom(s, i + 3)
         ELSE OccurrencesFrom(s, i + 1)

\* b is r without the whitespace at its two ends.
IsTrimOf(b, r) ==
    \E i \in 0..Len(r) :
        /\ i + Len(b) <= Len(r)
        /\ b = SubSeq(r, i + 1, i + Len(b))
        /\ \A k \in 1..i : r[k] \in {" ", "\n"}
        /\ \A k \in (i + Len(b) + 1)..Len(r) : r[k] \in {" ", "\n"}
        /\ b # <<>> => (b[1] \notin {" ", "\n"} /\ b[Len(b)] \notin {" ", "\n"})

\* C21 as stated: parse_file fails with MalformedContent exactly when the
\* text has fewer than two occurrences of "+++"; otherwise the frontmatter
\* is the text between the first two and the body is all the text behind
\* the second one.
C21_BodyIsRest ==
    ppc = "ret" =>
        LET at == OccurrencesFrom(pinput, 0)
        IN  IF Len(at) < 2 THEN presult = Err("MalformedContent", <<>>)
            ELSE /\ presult.ok
                 /\ presult.val[1] = SubSeq(pinput, at[1] + 4, at[2])
                 /\ presult.val[2] = SubSeq(pinput, at[2] + 4, Len(pinput))

\* C21: parse_file fails with MalformedContent exactly when the text has
\* fewer than two occurrences of "+++"; otherwise the frontmatter is the
\* text between the first two, and the body is the text behind the second
\* one, later occurrences included, without the whitespace at its two ends.
C21_BodyIsTrimmedRest ==
    ppc = "ret" =>
        LET at == OccurrencesFrom(pinput, 0)
        IN  IF Len(at) < 2 THEN presult = Err("MalformedContent", <<>>)
            ELSE /\ presult.ok
                 /\ presult.val[1] = SubSeq(pinput, at[1] + 4, at[2])
                 /\ IsTrimOf(presult.val[2],
                             SubSeq(pinput, at[2] + 4, Len(pinput)))

\* C21 witness: a text with something before the first "+++", with
\* whitespace behind the second and with a third "+++", which stays in the
\* body.
C21_Witness ==
    /\ ppc = "ret"
    /\ pinput = <<"x">> \o FRONTMATTER \o FRONTMATTER \o <<SPC>> \o FRONTMATTER
    /\ presult = Ok(<<<<>>, FRONTMATTER>>)

\* The indices a load of the tree c returns when nothing fails, the
\* directories taken from the stack as load_and_parse_content takes them.
RECURSIVE LoadFrom(_, _, _)
LoadFrom(c, stk, ixs) ==
    IF stk = <<>> THEN ixs
    ELSE LET d == stk[Len(stk)]
             rest == SubSeq(stk, 1, Len(stk) - 1) \o c[d].subdirs
         IN  IF c[d].index.some
             THEN LoadFrom(c, rest,
                      Append(ixs,
                          [metadata |-> c[d].index.val, dir |-> d,
                           pages |-> CHOOSE sorted \in
                               sort_unstable_by(c[d].pages,
                                                c[d].index.val.sort_by) :
                                   TRUE]))
             ELSE LoadFrom(c, rest, ixs)

\* The export units of the indices ixs.
UnitsOf(ixs) ==
    {IndexUnit(n) : n \in 1..Len(ixs)}
    \cup UNION {{PageUnit(n, k) : k \in 1..Len(ixs[n].pages)} :
                    n \in 1..Len(ixs)}

FileIn(ixs, u) ==
    IF u.kind = "index" THEN IndexFile(ixs[u.index])
    ELSE PageFile(ixs[u.index], ixs[u.index].pages[u.page])

\* What the templates make of the unit u of ixs.
TextIn(ixs, u) ==
    LET site == SiteContext(ixs, build_navigation(ixs))
        own == IndexContext(site, ixs[u.index])
    IN  IF u.kind = "index"
        THEN template(Templates[ixs[u.index].metadata.template], <<>>, own)
        ELSE template(Templates[ixs[u.index].pages[u.page].template], <<>>,
                      PageContext(own, ixs[u.index].pages[u.page]))

\* The files a build of the tree c with the assets a leaves, by path.
FilesOfBuild(c, a) ==
    LET ixs == LoadFrom(c, <<Root>>, <<>>)
        site == [path \in {FileIn(ixs, u) : u \in UnitsOf(ixs)} |->
                    TextIn(ixs, CHOOSE u \in UnitsOf(ixs) :
                                    FileIn(ixs, u) = path).val.val]
        names == IF a.some THEN a.val ELSE <<>>
        copied == [path \in {<<names[k]>> : k \in 1..Len(names)} |->
                    <<"asset", path[1]>>]
    IN  site @@ copied

\* The files below output_path as the last write left them.
FinalFiles ==
    [path \in DOMAIN output |-> output[path][Len(output[path])].text]

\* The two trees hold the same directories and files; read_dir may yield
\* them in different orders.
SameTree(c1, c2) ==
    /\ DOMAIN c1 = DOMAIN c2
    /\ \A d \in DOMAIN c1 :
          /\ c1[d].index = c2[d].index
          /\ SameFiles(c1[d].pages, c2[d].pages)
          /\ SameFiles(c1[d].subdirs, c2[d].subdirs)

\* C22: the files a successful build leaves are the files of the input
\* tree alone: the same for every order in which read_dir yields the
\* entries of a directory and for every schedule of the tasks.
C22_SameFilesInAnyOrder ==
    BuildOk =>
        \A c \in BuildContents :
            SameTree(content, c) => FinalFiles = FilesOfBuild(c, assets)

\* The error of mirror_assets on a content root without assets.
NoAssets == Err("ReadDirectory", <<"assets">>)

\* The unit u has written its file once, with the text its template makes
\* of its context; the assets have no part in that text.
WrittenAsExpected(u) ==
    /\ FileOf(u) \in DOMAIN output
    /\ \E n \in 1..Len(output[FileOf(u)]) :
          /\ output[FileOf(u)][n].by = u
          /\ output[FileOf(u)][n].text = TextIn(indices, u).val.val
          /\ \A m \in 1..Len(output[FileOf(u)]) :
                output[FileOf(u)][m].by = u => m = n

\* C23: without an assets directory the export is not cut short: when
\* export_indices_to_html has returned, every Index and every Page has
\* written its file with the text it has with assets present; build never
\* returns Ok, and it returns the ReadDirectory error of mirror_assets
\* only from the final join, with every file written.
C23_ExportWithoutAssets ==
    ~assets.some =>
        /\ ~BuildOk
        /\ (lpc = "ret" /\ bresult = Some(NoAssets)) =>
               /\ mirror_assets_handle = "err"
               /\ \A u \in Units : WrittenAsExpected(u)
        /\ lpc = "mirror" =>
               /\ bresult = None
               /\ \A u \in Units : WrittenAsExpected(u)

\* C23 witness: the build of a site with an Index and Pages and without
\* assets has written every file and returned the error of mirror_assets.
C23_Witness ==
    /\ ~assets.some
    /\ content = SiteForked
    /\ lpc = "ret"
    /\ bresult = Some(NoAssets)
    /\ Cardinality(Units) >= 2
    /\ \A u \in Units : WrittenAsExpected(u)

----------------------------------------------------------------------------
(* template on values and files that refer to themselves *)

\* Values of a: its own tag, its own tag behind text, the tag of b, its own
\* tag behind a tag that is not in the Context, an include, plain text.
CycleValuesA == {
    TagText(<<SPC>>, KeyA),
    <<"x">> \o TagText(<<>>, KeyA),
    TagText(<<>>, KeyB),
    TagText(<<>>, KeyC) \o TagText(<<>>, KeyA),
    CommandText(INCLUDE, Quoted(PathF)),
    <<"v">> }
CycleValuesB == { TagText(<<>>, KeyA), <<"w">> }
CycleContentsF == { CommandText(INCLUDE, Quoted(PathG)), TagText(<<>>, KeyA),
                    <<"p">> }
CycleContentsG == { CommandText(INCLUDE, Quoted(PathF)), <<"q">> }

CycleInit ==
    /\ ctx \in {(KeyA :> va) @@ (KeyB :> vb) :
                    va \in CycleValuesA, vb \in CycleValuesB}
    /\ files \in {(PathF :> cf) @@ (PathG :> cg) :
                    cf \in CycleContentsF, cg \in CycleContentsG}
    /\ input0 \in FairInputs
    /\ input = input0
    /\ html = <<>>
    /\ tpc = "loop"
    /\ tresult = None
    /\ FindIdle
    /\ SiteIdle
    /\ BuildIdle

SpecCycle == CycleInit /\ [][TemplateNext]_vars

\* The node a shortcode names, if the Context or the files hold it.
NodeOf(sc) ==
    LET n == IF sc.kind = "Tag" THEN [kind |-> "Tag", name |-> sc.var]
             ELSE [kind |-> "Include", name |-> sc.path]
    IN  IF n \in Nodes THEN Some(n) ELSE None

\* The node that the first complete shortcode of s names, if s has a
\* complete shortcode, it parses and it resolves.
FirstNode(s) ==
    IF NoCompleteShortcode(s) THEN None
    ELSE LET i == FirstShortcodeAt(s)
             sc == from_str(Slice(s, i, SpanEndAt(s, i)))
         IN  IF sc.ok THEN NodeOf(sc.val) ELSE None

\* k expansions from n on each begin with a shortcode that resolves.
RECURSIVE Resolves(_, _)
Resolves(n, k) ==
    IF k = 0 THEN TRUE
    ELSE LET m == FirstNode(TextOf(n))
         IN  m.some /\ Resolves(m.val, k - 1)

\* The first shortcode of the input leads into a cycle, and no shortcode
\* that fails is met on the way or in the cycle.
EntersCycle ==
    /\ ValuesWellBraced
    /\ FirstNode(input0).some
    /\ Resolves(FirstNode(input0).val, Cardinality(Nodes))

\* The input holds a shortcode that names a value or a file which refers
\* to itself, directly or through others.
UsesSelfReference ==
    \E n \in Nodes :
        /\ n \in ReachedIn(n, Cardinality(Nodes))
        /\ \E t \in DelimitedSubstrings(input0) :
              from_str(t).ok /\ NodeOf(from_str(t).val) = Some(n)

\* C24 as stated: template on an input that uses a tag or an include of a
\* value or file that refers to itself never returns.
C24_NeverReturnsOnSelfReference == UsesSelfReference => tpc # "ret"

\* C24: template never returns, with Ok or with an error, when the first
\* shortcode of the input leads into a cycle of values or files each of
\* which begins its shortcodes with one that resolves: nothing detects the
\* cycle and nothing bounds the passes through the loop.
C24_NeverReturnsInCycle == EntersCycle => tpc # "ret"

\* C24 witness: template is in its loop and has pushed the text in front
\* of the tag of a three times, for a value of a that names a.
C24_Witness ==
    /\ EntersCycle
    /\ UsesSelfReference
    /\ tpc = "loop"
    /\ ctx[KeyA] = <<"x">> \o TagText(<<>>, KeyA)
    /\ html = <<"x", "x", "x">>
    /\ input = ctx[KeyA]

----------------------------------------------------------------------------
(* Pages of a directory without _index.md *)

\* A page that fails to load lies in a directory without _index.md.
DiscardedPageBroken ==
    \E d \in DOMAIN content :
        /\ ~content[d].index.some
        /\ \E k \in 1..Len(content[d].pages) : PageRef(d, k) \in broken

\* C25: a page that cannot be read or parsed makes the load return its
\* error also when its directory has no _index.md: the load gets no
\* further than the join of that directory's page tasks, no Index is
\* returned, and the build returns an error of the load: that of the page
\* when nothing else fails to load.
C25_DiscardedPageAborts ==
    /\ [](DiscardedPageBroken =>
            /\ lpc \in {"start", "pop", "parse", "ret"}
            /\ lpc = "ret" =>
                  /\ indices = <<>>
                  /\ BuildErr /\ bresult # Some(NoAssets)
                  /\ \A ref \in broken :
                        broken = {ref} =>
                            bresult = Some(Err("ParseMetadata", ref)))
    /\ (DiscardedPageBroken ~> lpc = "ret")

\* C25 witness: the page of the content directory, which has no _index.md,
\* fails to parse and the build has returned its error.
C25_Witness ==
    /\ content = SiteDeep
    /\ broken = {PageRef(Root, 1)}
    /\ DiscardedPageBroken
    /\ lpc = "ret"
    /\ bresult = Some(Err("ParseMetadata", PageRef(Root, 1)))

----------------------------------------------------------------------------
(* mirror_assets beside the export *)

\* C26: no file below output_path is written both by mirror_assets and by
\* the export of an Index or a Page, so that the order of their writes is
\* of no account to what the file holds at the end.
C26_MirrorAndExportDisjoint ==
    \A path \in DOMAIN output :
        \A m, n \in 1..Len(output[path]) :
            output[path][m].by = MirrorUnit => output[path][n].by = MirrorUnit

====
